---------------------------- MODULE Spec2Model ----------------------------
(***************************************************************************)
(* A model of binkit's publish-time core: the version resolver             *)
(* (cli/src/npm.ts and the inline copy in cli/src/commands/generate.ts),   *)
(* the npm registry it reads and the runners that publish to it, and the   *)
(* acquisition pipeline (download, extract, strip prefix, chmod, cleanup,  *)
(* verify, install).                                                       *)
(*                                                                         *)
(* Text is modelled as a sequence of one-character strings, so that        *)
(* startsWith, slice, split, parseInt and number formatting are computed   *)
(* the way JavaScript computes them.                                       *)
(***************************************************************************)
EXTENDS Integers, Sequences, FiniteSets, TLC

VARIABLES
    calc,        \* one call of the pure resolver: inputs, result
    registry,    \* the keys of npm's `versions` map of @binkit/<tool>
    runner,      \* the independent CI runners resolving and publishing
    lastQueried, \* history: per upstream major, the version last resolved from a
                 \* query that read the registry
    pl,          \* one target's acquisition pipeline
    norm,        \* one vendor directory under the layout normalizer
    rt,          \* the generated facade at run time: installed packages, calls
    multi,       \* one generateToolPackages call over the tool's platforms
    cli,         \* one run of the command line, up to its exit code
    chk,         \* one run of the check command
    gen          \* one tool configuration and the files generated from it

vars ==
    <<calc, registry, runner, lastQueried, pl, norm, rt, multi, cli, chk, gen>>

(***************************************************************************)
(* Bounds of the model.                                                    *)
(***************************************************************************)
MaxPatch == 2        \* published plain patch numbers range over 0..MaxPatch
MaxPublished == 3    \* size of the published array handed to the pure resolver
MaxRegistry == 2     \* the registry accepts publishes up to this many versions

(***************************************************************************)
(* JavaScript text and numbers.                                            *)
(***************************************************************************)
DigitChars == <<"0", "1", "2", "3", "4", "5", "6", "7", "8", "9">>

IsDigit(c) == \E i \in 1..10 : DigitChars[i] = c

DigitValue(c) == (CHOOSE i \in 1..10 : DigitChars[i] = c) - 1

WhiteSpace == {" ", "\t", "\n"}

\* A JavaScript number: an integer or NaN.
NaN == [nan |-> TRUE, v |-> 0]

Num(n) == [nan |-> FALSE, v |-> n]

RECURSIVE NatToString(_)
NatToString(n) ==
    IF n < 10 THEN <<DigitChars[n + 1]>>
    ELSE NatToString(n \div 10) \o <<DigitChars[(n % 10) + 1]>>

\* String(x), as a template literal `${x}` formats a number.
NumToString(x) ==
    IF x.nan THEN <<"N", "a", "N">>
    ELSE IF x.v < 0 THEN <<"-">> \o NatToString(-x.v)
    ELSE NatToString(x.v)

\* x + 1 on JavaScript numbers: NaN + 1 is NaN.
PlusOne(x) == IF x.nan THEN NaN ELSE Num(x.v + 1)

\* Math.min in the place of Math.max.
MathMax_Min(xs) ==
    IF \E x \in xs : x.nan THEN NaN
    ELSE CHOOSE x \in xs : \A y \in xs : x.v <= y.v

\* Math.max(...xs) for a non-empty set of numbers: NaN if any argument is NaN.
MathMax(xs) ==
    IF \E x \in xs : x.nan THEN NaN
    ELSE CHOOSE x \in xs : \A y \in xs : y.v <= x.v

RECURSIVE TrimStart(_)
TrimStart(s) ==
    IF s # <<>> /\ Head(s) \in WhiteSpace THEN TrimStart(Tail(s)) ELSE s

RECURSIVE LeadingDigits(_)
LeadingDigits(s) ==
    IF s # <<>> /\ IsDigit(Head(s)) THEN <<Head(s)>> \o LeadingDigits(Tail(s))
    ELSE <<>>

RECURSIVE DigitsValue(_)
DigitsValue(ds) ==
    IF ds = <<>> THEN 0
    ELSE 10 * DigitsValue(SubSeq(ds, 1, Len(ds) - 1)) + DigitValue(ds[Len(ds)])

\* parseInt(s, 10): leading white space, an optional sign, then the longest
\* run of decimal digits; NaN when there is no digit.
parseInt(s) ==
    LET t == TrimStart(s)
        signed == t # <<>> /\ Head(t) \in {"+", "-"}
        u == IF signed THEN Tail(t) ELSE t
        ds == LeadingDigits(u)
    IN  IF ds = <<>> THEN NaN
        ELSE IF signed /\ Head(t) = "-" THEN Num(0 - DigitsValue(ds))
        ELSE Num(DigitsValue(ds))

\* s.startsWith(p)
startsWith(s, p) == Len(s) >= Len(p) /\ SubSeq(s, 1, Len(p)) = p

\* s.slice(n)
slice(s, n) == SubSeq(s, n + 1, Len(s))

\* s.split('.')[0]: the text before the first dot (all of s without a dot).
RECURSIVE splitFirst(_)
splitFirst(s) ==
    IF s = <<>> \/ Head(s) = "." THEN <<>>
    ELSE <<Head(s)>> \o splitFirst(Tail(s))

FRAMEWORK_MAJOR_VERSION == 0

\* `${FRAMEWORK_MAJOR_VERSION}.${upstreamMajor}.`
versionPrefix(upstreamMajor) ==
    NumToString(Num(FRAMEWORK_MAJOR_VERSION)) \o <<".">> \o upstreamMajor \o <<".">>

\* A variant of calculatePackageVersion whose prefix lacks the closing dot,
\* so that 0.35.x also counts as a version of upstream major 3.
calculatePackageVersion_LoosePrefix(upstreamVersion, publishedVersions) ==
    LET upstreamMajor == splitFirst(upstreamVersion)
        prefix == versionPrefix(upstreamMajor)
        loose == SubSeq(prefix, 1, Len(prefix) - 1)
        matchingVersions == {v \in publishedVersions : startsWith(v, loose)}
        patches == {parseInt(slice(v, Len(prefix))) : v \in matchingVersions}
    IN  IF matchingVersions = {} THEN prefix \o NumToString(Num(0))
        ELSE prefix \o NumToString(PlusOne(MathMax(patches)))

(***************************************************************************)
(* The pure resolver, cli/src/npm.ts.  publishedVersions is the array      *)
(* Object.keys(metadata); filter, map and Math.max do not depend on its    *)
(* order, and the keys of an object are distinct, so it is a set here.     *)
(***************************************************************************)
calculatePackageVersion(upstreamVersion, publishedVersions) ==
    LET upstreamMajor == splitFirst(upstreamVersion)
        prefix == versionPrefix(upstreamMajor)
        matchingVersions == {v \in publishedVersions : startsWith(v, prefix)}
        patches == {parseInt(slice(v, Len(prefix))) : v \in matchingVersions}
        maxPatch == MathMax(patches)
    IN  IF matchingVersions = {} THEN prefix \o NumToString(Num(0))
        ELSE prefix \o NumToString(PlusOne(maxPatch))

\* The version computation inlined in cli/src/commands/generate.ts, after
\* the registry query.
inlinePackageVersion(upstreamVersion, publishedVersions) ==
    LET upstreamMajor == splitFirst(upstreamVersion)
        prefix == versionPrefix(upstreamMajor)
        matchingVersions == {v \in publishedVersions : startsWith(v, prefix)}
        patches == {parseInt(slice(v, Len(prefix))) : v \in matchingVersions}
    IN  IF matchingVersions = {} THEN prefix \o NumToString(Num(0))
        ELSE prefix \o NumToString(PlusOne(MathMax(patches)))


(***************************************************************************)
(* Inputs of the pure resolver: upstream versions and published arrays.    *)
(* The published strings are untrusted registry text: plain patches, a     *)
(* prerelease tail, non-numeric and empty patch segments, the text "NaN",  *)
(* and versions of another upstream major and another framework major.     *)
(***************************************************************************)
Join3(a, b, c) == a \o <<".">> \o b \o <<".">> \o c

PlainPatches == {NatToString(n) : n \in 0..MaxPatch}

OddPatches == {<<"x">>, <<"N", "a", "N">>, <<"1", "-", "b">>, <<>>}

Majors == {<<"3">>, <<"3", "5">>}

PublishedUniverse ==
    {Join3(<<"0">>, m, p) : m \in Majors, p \in PlainPatches \cup OddPatches}
        \cup {Join3(<<"1">>, <<"3", "5">>, <<"0">>)}

\* '35.0.2' (the android-platform-tools entry) and '3.1', whose major is a
\* proper prefix of the other one.
UpstreamInputs == {<<"3", "5", ".", "0", ".", "2">>, <<"3", ".", "1">>}

RECURSIVE SubsetsUpTo(_, _)
SubsetsUpTo(S, k) ==
    IF k = 0 THEN {{}}
    ELSE LET prev == SubsetsUpTo(S, k - 1)
         IN  prev \cup {T \cup {x} : T \in prev, x \in S}

NoText == <<>>

(***************************************************************************)
(* Values the variables of the other specifications rest at.               *)
(***************************************************************************)
CalcIdle ==
    [phase |-> "idle", impl |-> "none", upstreamVersion |-> NoText,
     publishedVersions |-> {}, result |-> NoText]

RegistryIdle == {}

RunnerIdle == <<>>

HistoryIdle == <<>>

PlIdle == [pc |-> "idle"]

NormIdle == [phase |-> "idle"]

RtIdle == [pc |-> "idle"]

MultiIdle == [status |-> "idle"]

CliIdle == [pc |-> "idle"]

ChkIdle == [pc |-> "idle"]

GenIdle == [phase |-> "idle"]

(***************************************************************************)
(* SpecResolver: one call of the pure resolver on every bounded input.     *)
(***************************************************************************)
InitResolver ==
    /\ calc \in {[phase |-> "input", impl |-> "none", upstreamVersion |-> u,
                  publishedVersions |-> P, result |-> NoText] :
                    u \in UpstreamInputs,
                    P \in SubsetsUpTo(PublishedUniverse, MaxPublished)}
    /\ registry = RegistryIdle
    /\ runner = RunnerIdle
    /\ lastQueried = HistoryIdle
    /\ pl = PlIdle
    /\ norm = NormIdle
    /\ rt = RtIdle
    /\ multi = MultiIdle
    /\ cli = CliIdle
    /\ chk = ChkIdle
    /\ gen = GenIdle

\* npm.ts calculatePackageVersion(upstreamVersion, publishedVersions)
Calculate ==
    /\ calc.phase = "input"
    /\ calc' = [calc EXCEPT !.phase = "done", !.impl = "npm",
                    !.result = calculatePackageVersion(calc.upstreamVersion,
                                                       calc.publishedVersions)]
    /\ UNCHANGED <<registry, runner, lastQueried, pl, norm,
                   rt, multi, cli, chk, gen>>

\* generate.ts lines 153-164 on the same inputs
CalculateInline ==
    /\ calc.phase = "input"
    /\ calc' = [calc EXCEPT !.phase = "done", !.impl = "generate",
                    !.result = inlinePackageVersion(calc.upstreamVersion,
                                                    calc.publishedVersions)]
    /\ UNCHANGED <<registry, runner, lastQueried, pl, norm,
                   rt, multi, cli, chk, gen>>

NextResolver == Calculate \/ CalculateInline

SpecResolver == InitResolver /\ [][NextResolver]_vars

(***************************************************************************)
(* Claims about the pure resolver.                                         *)
(***************************************************************************)
\* F.M. as the claims write it: the framework major 0, a dot, the first
\* dot-separated segment of the upstream version, a dot.
ClaimPrefix(upstreamVersion) == <<"0", ".">> \o splitFirst(upstreamVersion) \o <<".">>

ClaimMatching(upstreamVersion, P) ==
    {v \in P : startsWith(v, ClaimPrefix(upstreamVersion))}

\* The plain patch numbers n with F.M.n published.
ClaimPlainPatches(upstreamVersion, P) ==
    {n \in 0..(MaxPatch + 1) : ClaimPrefix(upstreamVersion) \o NatToString(n) \in P}

\* Every published version with the prefix is F.M.n for a plain number n.
ClaimAllPlain(upstreamVersion, P) ==
    \A v \in ClaimMatching(upstreamVersion, P) :
        \E n \in ClaimPlainPatches(upstreamVersion, P) :
            v = ClaimPrefix(upstreamVersion) \o NatToString(n)

SetMax(S) == CHOOSE x \in S : \A y \in S : y <= x

\* C1: the resolver returns F.M.0 when no published version starts with
\* F.M., and F.M.(max+1) when the published versions with that prefix carry
\* the plain patch numbers whose largest is max; so a published F.M.0..F.M.k
\* gives F.M.(k+1).
C1_NextPatch ==
    calc.phase = "done" =>
        LET u == calc.upstreamVersion
            P == calc.publishedVersions
        IN  /\ ClaimMatching(u, P) = {} =>
                 calc.result = ClaimPrefix(u) \o <<"0">>
            /\ (ClaimMatching(u, P) # {} /\ ClaimAllPlain(u, P)) =>
                 calc.result =
                     ClaimPrefix(u) \o NatToString(SetMax(ClaimPlainPatches(u, P)) + 1)

\* 0.35.0 and 0.35.1 are published (beside versions without the prefix) and
\* the resolver of npm.ts has returned 0.35.2.
C1_Witness ==
    /\ calc.phase = "done"
    /\ calc.impl = "npm"
    /\ calc.upstreamVersion = <<"3", "5", ".", "0", ".", "2">>
    /\ ClaimPlainPatches(calc.upstreamVersion, calc.publishedVersions) = {0, 1}
    /\ ClaimAllPlain(calc.upstreamVersion, calc.publishedVersions)
    /\ Cardinality(calc.publishedVersions) = 3
    /\ calc.result = <<"0", ".", "3", "5", ".", "2">>

\* C2: the version the resolver returns is never a member of the published
\* set it was given, whatever strings that set holds.
C2_NeverPublished ==
    calc.phase = "done" => calc.result \notin calc.publishedVersions

\* C3: published versions with the prefix whose patch segment is not numeric
\* are left out of the maximum: the resolver returns F.M.(largest numeric
\* patch + 1), or F.M.0 when no numeric patch remains, and the patch it
\* returns is a number.  (A patch segment counts as numeric when it starts
\* with a number, as 1-b does.)
C3_MalformedExcluded ==
    calc.phase = "done" =>
        LET u == calc.upstreamVersion
            segs == {slice(v, Len(ClaimPrefix(u))) :
                        v \in ClaimMatching(u, calc.publishedVersions)}
            nums == {parseInt(s).v : s \in {t \in segs : ~parseInt(t).nan}}
        IN  calc.result =
                ClaimPrefix(u) \o NatToString(IF nums = {} THEN 0 ELSE SetMax(nums) + 1)

(***************************************************************************)
(* The registry query.  A response of registry.npmjs.org is an HTTP status *)
(* with the package's `versions` map, or no response at all (fetch rejects *)
(* with TypeError 'fetch failed').                                         *)
(***************************************************************************)
NetErr == [kind |-> "neterr", status |-> 0]

Http(status) == [kind |-> "http", status |-> status]

\* response.ok
responseOk(response) ==
    response.kind = "http" /\ response.status >= 200 /\ response.status <= 299

Resolved(v, published) ==
    [ok |-> TRUE, packageVersion |-> v, published |-> published, error |-> "none"]

Rejected(e) ==
    [ok |-> FALSE, packageVersion |-> NoText, published |-> {}, error |-> e]

\* npm.ts fetchPublishedMetadata, then Object.keys: the published versions,
\* or the error it throws.  `versions` is what the registry holds.
fetchPublishedVersions(response, versions) ==
    IF response.kind = "neterr" THEN [ok |-> TRUE, keys |-> {}]
    ELSE IF response.status = 404 THEN [ok |-> TRUE, keys |-> {}]
    ELSE IF ~responseOk(response) THEN [ok |-> FALSE, keys |-> {}]
    ELSE [ok |-> TRUE, keys |-> versions]

\* A variant of getPackageVersion that returns the highest published version
\* of the major itself, the patch not incremented.
getPackageVersion_NoIncrement(upstreamVersion, response, versions) ==
    LET fetched == fetchPublishedVersions(response, versions)
        prefix == versionPrefix(splitFirst(upstreamVersion))
        matching == {v \in fetched.keys : startsWith(v, prefix)}
        patches == {parseInt(slice(v, Len(prefix))) : v \in matching}
    IN  IF ~fetched.ok THEN Rejected("Failed to fetch npm info")
        ELSE IF matching = {} THEN Resolved(prefix \o <<"0">>, fetched.keys)
        ELSE Resolved(prefix \o NumToString(MathMax(patches)), fetched.keys)

\* npm.ts getPackageVersion(name, upstreamVersion)
getPackageVersion(upstreamVersion, response, versions) ==
    LET fetched == fetchPublishedVersions(response, versions)
    IN  IF fetched.ok
        THEN Resolved(calculatePackageVersion(upstreamVersion, fetched.keys),
                      fetched.keys)
        ELSE Rejected("Failed to fetch npm info")

\* generate.ts calculatePackageVersion(name, upstreamVersion): the query with
\* its catch-all, then the inlined computation.
generateCalculatePackageVersion(upstreamVersion, response, versions) ==
    LET publishedVersions == IF responseOk(response) THEN versions ELSE {}
    IN  Resolved(inlinePackageVersion(upstreamVersion, publishedVersions),
                 publishedVersions)

(***************************************************************************)
(* Spec: two independent runners resolve and publish versions of one tool  *)
(* against the shared registry.  The registry holds valid semver only      *)
(* (npm refuses anything else), accepts a publish of a new version and     *)
(* rejects a publish of a version it holds; its version set only grows.    *)
(* The package starts out never published.                                 *)
(***************************************************************************)
Runners == {"r1", "r2"}

\* The upstream versions the tool declares: two releases of upstream major 35.
ToolVersions == {<<"3", "5", ".", "0", ".", "2">>, <<"3", "5", ".", "1", ".", "0">>}

UpstreamMajors == {splitFirst(u) : u \in ToolVersions}

\* Versions other publishers may add: a plain one, a prerelease, one of
\* another framework major.
ForeignVersions ==
    {Join3(<<"0">>, <<"3", "5">>, <<"0">>),
     Join3(<<"0">>, <<"3", "5">>, <<"1", "-", "b">>),
     Join3(<<"1">>, <<"3", "5">>, <<"0">>)}

HttpStatuses == {200, 404, 500}

\* What the registry may answer now: 404 exactly for a package with no
\* version, 200 with the versions otherwise, a server error or no answer
\* at any time.
Responses(versions) ==
    {Http(s) : s \in {t \in HttpStatuses :
                        /\ t = 404 => versions = {}
                        /\ t = 200 => versions # {}}}
        \cup {NetErr}

RunnerStart ==
    [pc |-> "idle", impl |-> "none", upstreamVersion |-> NoText,
     response |-> NetErr, seen |-> {}, packageVersion |-> NoText,
     error |-> "none"]

Init ==
    /\ registry = {}
    /\ runner = [r \in Runners |-> RunnerStart]
    /\ lastQueried = [m \in UpstreamMajors |-> NoText]
    /\ calc = CalcIdle
    /\ pl = PlIdle
    /\ norm = NormIdle
    /\ rt = RtIdle
    /\ multi = MultiIdle
    /\ cli = CliIdle
    /\ chk = ChkIdle
    /\ gen = GenIdle

\* One resolution by runner r, at the start of a job of its own: the query
\* and the computation, with the outcome recorded in the runner and in the
\* history.
Resolve(r, impl, u, response, outcome) ==
    /\ runner[r].pc \in {"idle", "published", "rejected", "failed"}
    /\ runner' = [runner EXCEPT ![r] =
            [pc |-> IF outcome.ok THEN "resolved" ELSE "failed",
             impl |-> impl, upstreamVersion |-> u, response |-> response,
             seen |-> registry,
             packageVersion |-> outcome.packageVersion,
             error |-> outcome.error]]
    /\ lastQueried' = IF outcome.ok /\ response.kind = "http"
                         /\ response.status \in {200, 404}
                      THEN [lastQueried EXCEPT ![splitFirst(u)] = outcome.packageVersion]
                      ELSE lastQueried
    /\ UNCHANGED <<registry, calc, pl, norm, rt, multi, cli, chk, gen>>

\* cli.ts getPredefinedConfig: await getPackageVersion(name, upstreamVersion)
ResolveNpm(r) ==
    \E u \in ToolVersions, response \in Responses(registry) :
        Resolve(r, "npm", u, response,
                getPackageVersion(u, response, registry))

\* generate.ts resolveToolConfig: await calculatePackageVersion(name, upstreamVersion)
ResolveGenerate(r) ==
    \E u \in ToolVersions, response \in Responses(registry) :
        Resolve(r, "generate", u, response,
                generateCalculatePackageVersion(u, response, registry))

\* `npm publish` of the package generated with the resolved version: the
\* registry accepts a version it does not hold and rejects one it holds.
Publish(r) ==
    /\ runner[r].pc = "resolved"
    /\ IF runner[r].packageVersion \in registry
       THEN /\ runner' = [runner EXCEPT ![r].pc = "rejected"]
            /\ UNCHANGED registry
       ELSE /\ Cardinality(registry) < MaxRegistry
            /\ registry' = registry \cup {runner[r].packageVersion}
            /\ runner' = [runner EXCEPT ![r].pc = "published"]
    /\ UNCHANGED <<lastQueried, calc, pl, norm, rt, multi, cli, chk, gen>>

\* Another publisher adds a version to the package.
ForeignPublish ==
    /\ Cardinality(registry) < MaxRegistry
    /\ \E v \in ForeignVersions \ registry : registry' = registry \cup {v}
    /\ UNCHANGED <<runner, lastQueried, calc, pl, norm,
                   rt, multi, cli, chk, gen>>

Next ==
    \/ \E r \in Runners : ResolveNpm(r)
    \/ \E r \in Runners : ResolveGenerate(r)
    \/ \E r \in Runners : Publish(r)
    \/ ForeignPublish

Spec == Init /\ [][Next]_vars

(***************************************************************************)
(* Claims about the registry query and the runners.                        *)
(***************************************************************************)
\* The runner has resolved a version (and may have gone on to publish it).
HasResolved(r) == runner[r].pc \in {"resolved", "published", "rejected"}

\* The runner's publish has been answered.
HasPublished(r) == runner[r].pc \in {"published", "rejected"}

\* The runner's query was answered with the registry's contents: 200 with
\* the versions, or 404 for the package never published.
ReadRegistry(r) ==
    runner[r].response.kind = "http" /\ runner[r].response.status \in {200, 404}

\* C4: a 404 and a connectivity failure both give the empty record, so the
\* resolver returns F.M.0; any other non-2xx response makes the resolution
\* fail with an error and no version; a 5xx never counts as unpublished.
C4_QueryClassified ==
    \A r \in Runners :
        runner[r].pc # "idle" =>
            LET response == runner[r].response
                unpublished == \/ response.kind = "neterr"
                               \/ response.kind = "http" /\ response.status = 404
            IN  /\ unpublished =>
                     /\ HasResolved(r)
                     /\ runner[r].packageVersion =
                            ClaimPrefix(runner[r].upstreamVersion) \o <<"0">>
                /\ (~unpublished /\ ~responseOk(response)) =>
                     /\ runner[r].pc = "failed"
                     /\ runner[r].packageVersion = NoText

\* C5: two runners that resolved the same upstream major against the same
\* registry state compute the same version; the registry accepts at most
\* one of their publishes, and exactly one once both have been answered and
\* nobody else has published in between.
C5_OnePublishWins ==
    \A r1, r2 \in Runners :
        ( /\ r1 # r2
          /\ HasResolved(r1) /\ HasResolved(r2)
          /\ ReadRegistry(r1) /\ ReadRegistry(r2)
          /\ runner[r1].seen = runner[r2].seen
          /\ splitFirst(runner[r1].upstreamVersion) = splitFirst(runner[r2].upstreamVersion) )
        =>
            LET won == {r \in {r1, r2} : runner[r].pc = "published"}
            IN  /\ runner[r1].packageVersion = runner[r2].packageVersion
                /\ Cardinality(won) <= 1
                /\ ( /\ HasPublished(r1) /\ HasPublished(r2)
                     /\ registry \ runner[r1].seen
                            \subseteq {runner[r].packageVersion : r \in won} )
                   => Cardinality(won) = 1

\* Both runners resolved 35.0.2 with npm.ts against the same non-empty
\* registry, both published; one was accepted and one rejected.
C5_Witness ==
    /\ runner["r1"].pc = "published"
    /\ runner["r2"].pc = "rejected"
    /\ runner["r1"].impl = "npm" /\ runner["r2"].impl = "npm"
    /\ ReadRegistry("r1") /\ ReadRegistry("r2")
    /\ runner["r1"].seen = runner["r2"].seen
    /\ runner["r1"].seen # {}
    /\ runner["r1"].packageVersion = runner["r2"].packageVersion
    /\ registry = runner["r1"].seen \cup {runner["r1"].packageVersion}

\* The text after the second dot of a version, as a number.
RECURSIVE AfterFirstDot(_)
AfterFirstDot(s) ==
    IF s = <<>> THEN <<>>
    ELSE IF Head(s) = "." THEN Tail(s)
    ELSE AfterFirstDot(Tail(s))

ClaimPatch(v) == parseInt(AfterFirstDot(AfterFirstDot(v))).v

\* C6 as stated: whenever getPackageVersion of npm.ts returns a version, its
\* patch number is not lower than the patch number an earlier resolution of
\* the same upstream major returned.
C6_Monotone ==
    [][\A r, q \in Runners :
          ( /\ runner'[r] # runner[r]
            /\ runner'[r].pc = "resolved"
            /\ runner'[r].impl = "npm"
            /\ HasResolved(q)
            /\ runner[q].impl = "npm"
            /\ splitFirst(runner[q].upstreamVersion) =
                   splitFirst(runner'[r].upstreamVersion) )
          => ClaimPatch(runner'[r].packageVersion) >= ClaimPatch(runner[q].packageVersion)
      ]_vars

\* C6, amended: over the resolutions whose query was answered with the
\* registry's contents (200, or 404 for a package never published), the
\* patch numbers returned for one upstream major never decrease.
C6_MonotoneQueried ==
    [][\A m \in UpstreamMajors :
          lastQueried[m] # NoText =>
              ClaimPatch(lastQueried'[m]) >= ClaimPatch(lastQueried[m])
      ]_vars

\* r1 resolved 0.35.0 against the empty registry and published it; r2 then
\* read the registry holding it and resolved 0.35.1.
C6_Witness ==
    /\ runner["r1"].pc = "published"
    /\ runner["r1"].seen = {}
    /\ runner["r1"].packageVersion = <<"0", ".", "3", "5", ".", "0">>
    /\ runner["r2"].pc = "resolved"
    /\ ReadRegistry("r2")
    /\ runner["r2"].seen = {<<"0", ".", "3", "5", ".", "0">>}
    /\ runner["r2"].packageVersion = <<"0", ".", "3", "5", ".", "1">>
    /\ lastQueried[<<"3", "5">>] = <<"0", ".", "3", "5", ".", "1">>


(***************************************************************************)
(* SpecPipeline: the acquisition of one target's binaries, in its two      *)
(* implementations: runGenerateTarget with downloadAndExtract              *)
(* (cli/src/commands/generate.ts, "generate") and                          *)
(* downloadAndExtractPlatform (generator/src/download.ts, "platform").     *)
(* A path is a sequence of segments, the executable suffix a segment of    *)
(* its own; a directory's content is the set of the paths of its files.    *)
(***************************************************************************)
PipelineImpls == {"generate", "platform"}

Platforms == {"linux", "win32"}

\* exeExt: process.platform === 'win32' ? '.exe' : ''
exeExt(platform) == IF platform = "win32" THEN <<".exe">> ELSE <<>>

\* One verification command after cmd.split(' '): [binaryPath, ...args]
Command(binaryPath, args) == [binaryPath |-> binaryPath, args |-> args]

\* The Android platform tools entry: an archive with a top-level directory
\* and two declared verification commands.
AndroidConfig ==
    [toolName |-> <<"android-platform-tools">>,
     stripPrefix |-> <<"platform-tools">>,
     declared |-> "list",
     binaries |-> << <<"adb">>, <<"fastboot">> >>,
     verify |-> << Command(<<"adb">>, "--version"),
                   Command(<<"fastboot">>, "--version") >>]

\* The ffmpeg entry of a target whose archive has no top-level directory.
FfmpegConfig ==
    [toolName |-> <<"ffmpeg">>,
     stripPrefix |-> <<>>,
     declared |-> "list",
     binaries |-> << <<"ffmpeg">> >>,
     verify |-> << Command(<<"ffmpeg">>, "-version") >>]

\* An entry that declares no verification command (verify is optional).
UnverifiedConfig ==
    [toolName |-> <<"ffmpeg">>,
     stripPrefix |-> <<>>,
     declared |-> "list",
     binaries |-> << <<"ffmpeg">> >>,
     verify |-> << >>]

\* An entry whose configuration has no `binaries` property (declared is
\* "absent"; the binaries field then holds nothing).
DefaultedConfig ==
    [toolName |-> <<"ffmpeg">>,
     stripPrefix |-> <<>>,
     declared |-> "absent",
     binaries |-> << >>,
     verify |-> << Command(<<"ffmpeg">>, "-version") >>]

\* An entry with binaries: []
EmptyListConfig ==
    [toolName |-> <<"ffmpeg">>,
     stripPrefix |-> <<>>,
     declared |-> "list",
     binaries |-> << >>,
     verify |-> << Command(<<"ffmpeg">>, "-version") >>]

EntryConfigs ==
    {AndroidConfig, FfmpegConfig, UnverifiedConfig, DefaultedConfig,
     EmptyListConfig}

\* config.binaries ?? [toolName]: only an absent list is replaced.
nullishBinaries(config) ==
    IF config.declared = "absent" THEN <<config.toolName>>
    ELSE config.binaries

\* templates.ts getBinaries(config): the paths of the generated exports.
getBinaries(config) ==
    IF config.declared # "absent" /\ Len(config.binaries) > 0
    THEN [ok |-> TRUE, paths |-> config.binaries]
    ELSE [ok |-> TRUE, paths |-> <<config.toolName>>]

\* getBinaryInfos(entryConfig.binaries, name): binaries.length of an absent
\* list is a TypeError.
getBinaryInfos(config) ==
    IF config.declared = "absent" THEN [ok |-> FALSE, paths |-> <<>>]
    ELSE IF Len(config.binaries) > 0
    THEN [ok |-> TRUE, paths |-> config.binaries]
    ELSE [ok |-> TRUE, paths |-> <<config.toolName>>]

Range(f) == {f[i] : i \in DOMAIN f}

\* The archives the download URL may serve for a configuration: any of the
\* declared binaries, under the top-level directory or at the root, with
\* the platform's executable suffix or without.
Archives(config, platform) ==
    {{dir \o b \o ext : b \in present} :
        present \in SUBSET (IF config.binaries = <<>> THEN {config.toolName}
                            ELSE Range(config.binaries)),
        dir \in {config.stripPrefix, <<>>},
        ext \in {exeExt(platform), <<>>}}

\* entry.versions of the tool, and the upstream versions a run may ask for.
RequestedVersions == ToolVersions \cup {<<"3", "6", ".", "0", ".", "0">>}

\* What the package of the pipeline's resolution has on the registry.
PipelinePublished == {{}, {Join3(<<"0">>, <<"3", "5">>, <<"0">>)}}

\* A download response: its status and whether it has a body.
Download(status, body) == [kind |-> "http", status |-> status, body |-> body]

FetchFailed == [kind |-> "neterr", status |-> 0, body |-> FALSE]

\* The responses the download URL may give: the archive, a success without
\* a body, a client or a server error, or no response at all.
DownloadResponses ==
    {Download(200, TRUE), Download(204, FALSE), Download(404, TRUE),
     Download(500, TRUE), FetchFailed}

\* An error as thrown: its message, the HTTP status the message carries and
\* the path the message names.
ErrorWithStatus(message, status) ==
    [message |-> message, hasStatus |-> TRUE, status |-> status,
     names |-> <<>>]

Error(message) ==
    [message |-> message, hasStatus |-> FALSE, status |-> 0, names |-> <<>>]

\* `Binary not found: ${binaryPath}`, `spawn ${targetPath} ENOENT`
ErrorNaming(message, path) ==
    [message |-> message, hasStatus |-> FALSE, status |-> 0, names |-> path]

NoError == Error("none")

\* generate.ts 180-183: one check for the status and the body.
generateDownloadError(response) ==
    IF ~responseOk(response) \/ ~response.body
    THEN ErrorWithStatus("Failed to download", response.status)
    ELSE NoError

\* download.ts downloadFile 18-25: the status, then the body.
downloadFileError(response) ==
    IF ~responseOk(response)
    THEN ErrorWithStatus("Failed to download", response.status)
    ELSE IF ~response.body THEN Error("No response body")
    ELSE NoError

\* fs.access(fullPath).then(() => fullPath).catch(() => pathWithoutExt)
accessTarget(vendor, binaryPath, platform) ==
    IF (binaryPath \o exeExt(platform)) \in vendor
    THEN binaryPath \o exeExt(platform)
    ELSE binaryPath

\* The strip of the top-level directory: each entry of prefixDir is renamed
\* into the vendor root.
stripped(vendor, stripPrefix) ==
    {IF startsWith(p, stripPrefix) THEN slice(p, Len(stripPrefix)) ELSE p :
        p \in vendor}

\* Which extracted file each path of the vendor directory holds after the
\* strip: fs.rename replaces a file that is already at the destination, so
\* where an entry of the prefix directory meets a file of the root under one
\* name, the path holds the file that was moved.
renamedContent(vendor, content, stripPrefix) ==
    [p \in stripped(vendor, stripPrefix) |->
        IF (stripPrefix \o p) \in vendor THEN content[stripPrefix \o p]
        ELSE content[p]]

\* generate.ts 194-202: nothing without a stripPrefix; else readdir of the
\* prefix directory, which throws ENOENT when there is none, the renames of
\* its entries into the vendor root, and rmdir.
stripPrefixStep(vendor, stripPrefix) ==
    IF stripPrefix = <<>>
    THEN [ok |-> TRUE, vendor |-> vendor, error |-> NoError]
    ELSE IF \E f \in vendor : startsWith(f, stripPrefix)
    THEN [ok |-> TRUE, vendor |-> stripped(vendor, stripPrefix),
          error |-> NoError]
    ELSE [ok |-> FALSE, vendor |-> vendor,
          error |-> ErrorNaming("ENOENT", stripPrefix)]

\* The chmod loop: every declared binary that exists becomes executable.
chmodded(vendor, binaries, platform) ==
    {accessTarget(vendor, binaries[i], platform) : i \in DOMAIN binaries}
        \cap vendor

\* How a spawned command ends: an exit code, a signal, or a spawn error.
Exit(code) == [kind |-> "exit", code |-> code]

Signalled == [kind |-> "signal", code |-> 0]

SpawnError == [kind |-> "error", code |-> 0]

\* runCommand resolves with code ?? 1
closeCode(ended) == IF ended.kind = "signal" THEN 1 ELSE ended.code

\* A variant of the verification test that accepts every exit code.
verifyPassed_Any(code) == TRUE

\* if (code === 0) ... else throw
verifyPassed(code) == code = 0


\* The position from which each step starts: every step is awaited to its
\* end before the next one starts.
readyFor_Unawaited(p, step) ==
    CASE step = "resolve" -> p.impl = "generate" /\ p.pc = "start"
      [] step = "prepare" -> \/ p.impl = "generate" /\ p.pc = "resolved"
                             \/ p.impl = "platform" /\ p.pc = "start"
      [] step = "download" -> p.pc = "prepared"
      [] step = "extract" -> p.pc \in {"prepared", "downloaded"}
      [] step = "strip" -> /\ p.impl = "generate" /\ p.pc = "extracted"
                           /\ p.config.stripPrefix # <<>>
      [] step = "chmod" -> \/ p.pc = "stripped"
                           \/ /\ p.pc = "extracted"
                              /\ p.impl = "platform" \/ p.config.stripPrefix = <<>>
      [] step = "cleanup" -> p.pc = "chmodded"
      [] step = "verify" -> p.pc = "verifying"
      [] step = "install" -> p.impl = "generate" /\ p.pc = "acquired"
      [] OTHER -> FALSE

readyFor(p, step) ==
    CASE step = "resolve" -> p.impl = "generate" /\ p.pc = "start"
      [] step = "prepare" -> \/ p.impl = "generate" /\ p.pc = "resolved"
                             \/ p.impl = "platform" /\ p.pc = "start"
      [] step = "download" -> p.pc = "prepared"
      [] step = "extract" -> p.pc = "downloaded"
      [] step = "strip" -> /\ p.impl = "generate" /\ p.pc = "extracted"
                           /\ p.config.stripPrefix # <<>>
      [] step = "chmod" -> \/ p.pc = "stripped"
                           \/ /\ p.pc = "extracted"
                              /\ p.impl = "platform" \/ p.config.stripPrefix = <<>>
      [] step = "cleanup" -> p.pc = "chmodded"
      [] step = "verify" -> p.pc = "verifying"
      [] step = "install" -> p.impl = "generate" /\ p.pc = "acquired"
      [] OTHER -> FALSE

\* A line written to the console: its level, its text and the path it
\* names.
Line(level, text, names) == [level |-> level, text |-> text, names |-> names]

\* console.log(...)
logged(p, lines) == [p EXCEPT !.console = @ \o lines]

\* A step that returned: the pipeline moves on to position pc.
Pass(p, step, pc) ==
    [p EXCEPT !.pc = pc,
              !.stages = Append(@, [step |-> step, ok |-> TRUE])]

\* A variant of Fail in which a failed verification command does not stop
\* the verification loop.
Fail_VerifyContinues(p, step, error) ==
    [p EXCEPT !.pc = IF step = "verify" THEN "verifying" ELSE "failed",
              !.failedAt = step, !.error = error,
              !.stages = Append(@, [step |-> step, ok |-> FALSE])]

\* A step that threw: the error propagates to the caller, which stops.
Fail(p, step, error) ==
    [p EXCEPT !.pc = "failed", !.failedAt = step, !.error = error,
              !.stages = Append(@, [step |-> step, ok |-> FALSE])]

\* An 'error' event of the spawned child, which has no listener: the
\* process ends with the uncaught exception.
Crash(p, step, error) ==
    [p EXCEPT !.pc = "crashed", !.failedAt = step, !.error = error,
              !.stages = Append(@, [step |-> step, ok |-> FALSE])]

\* Where the pipeline stands once the verification loop has no command left.
pcAfterVerify(config, verifyRuns) ==
    IF Len(verifyRuns) = Len(config.verify) THEN "acquired" ELSE "verifying"

\* A variant of missingBinary that counts the command of a missing binary
\* as verified and moves on.
missingBinary_Skipped(p, cmd, targetPath) ==
    LET runs == Append(p.verifyRuns, [cmd |-> cmd, code |-> 0])
    IN  [Pass(p, "verify", pcAfterVerify(p.config, runs)) EXCEPT
            !.verifyRuns = runs]

\* The verification command's binary exists under neither name:
\* verifyBinaries throws `Binary not found`, downloadAndExtract spawns the
\* bare path and the child's 'error' event (spawn ENOENT) is unhandled.
missingBinary(p, cmd, targetPath) ==
    IF p.impl = "platform"
    THEN Fail(p, "verify", ErrorNaming("Binary not found", cmd.binaryPath))
    ELSE Crash(p, "verify", ErrorNaming("spawn ENOENT", targetPath))

PipelineStart(impl, platform, config, archive, upstreamVersion, published) ==
    [impl |-> impl, platform |-> platform, config |-> config,
     archive |-> archive, upstreamVersion |-> upstreamVersion,
     published |-> published, pc |-> "start", packageVersion |-> NoText,
     response |-> FetchFailed, downloads |-> 0, zip |-> "absent",
     vendor |-> {}, modes |-> {}, verifyRuns |-> <<>>, stages |-> <<>>,
     console |-> <<>>, binaryPaths |-> <<>>, error |-> NoError,
     failedAt |-> "none"]

InitPipeline ==
    /\ \E impl \in PipelineImpls, platform \in Platforms,
          config \in EntryConfigs :
         \E archive \in Archives(config, platform),
            u \in RequestedVersions, published \in PipelinePublished :
            /\ impl = "platform" =>
                   u = <<"3", "5", ".", "0", ".", "2">> /\ published = {}
            /\ pl = PipelineStart(impl, platform, config, archive, u, published)
    /\ calc = CalcIdle
    /\ registry = RegistryIdle
    /\ runner = RunnerIdle
    /\ lastQueried = HistoryIdle
    /\ norm = NormIdle
    /\ rt = RtIdle
    /\ multi = MultiIdle
    /\ cli = CliIdle
    /\ chk = ChkIdle
    /\ gen = GenIdle

\* runGenerateTarget: await resolveToolConfig(name, upstreamVersion)
PlResolve ==
    /\ readyFor(pl, "resolve")
    /\ IF pl.upstreamVersion \notin ToolVersions
       THEN pl' = Fail(pl, "resolve", Error("Unknown version"))
       ELSE \E response \in Responses(pl.published) :
               pl' = [Pass(pl, "resolve", "resolved") EXCEPT
                        !.packageVersion =
                            generateCalculatePackageVersion(
                                pl.upstreamVersion, response,
                                pl.published).packageVersion]
    /\ UNCHANGED <<calc, registry, runner, lastQueried, norm,
                   rt, multi, cli, chk, gen>>

\* The package directory is written: generate.ts removes the target's
\* directory and creates vendor/; download.ts creates vendor/.
PlPrepare ==
    /\ readyFor(pl, "prepare")
    /\ pl' = [pl EXCEPT !.pc = "prepared", !.vendor = {}, !.zip = "absent"]
    /\ UNCHANGED <<calc, registry, runner, lastQueried, norm,
                   rt, multi, cli, chk, gen>>

\* await fetch(url), the checks of the response, and the stream of the body
\* into download.zip, which may break off and leave a partial file.
PlDownload ==
    /\ readyFor(pl, "download")
    /\ \E response \in DownloadResponses, streamed \in BOOLEAN :
          LET attempted == [logged(pl, <<Line("info", "Downloading", <<>>)>>)
                                EXCEPT !.response = response,
                                       !.downloads = @ + 1]
              error == IF pl.impl = "generate"
                       THEN generateDownloadError(response)
                       ELSE downloadFileError(response)
          IN  IF response.kind = "neterr"
              THEN pl' = Fail(attempted, "download", Error("fetch failed"))
              ELSE IF error # NoError
              THEN pl' = Fail(attempted, "download", error)
              ELSE IF ~streamed
              THEN pl' = [Fail(attempted, "download", Error("stream failed"))
                            EXCEPT !.zip = "partial"]
              ELSE pl' = [Pass(logged(attempted,
                                              <<Line("info", "Downloaded", <<>>)>>),
                                       "download", "downloaded")
                            EXCEPT !.zip = "complete"]
    /\ UNCHANGED <<calc, registry, runner, lastQueried, norm,
                   rt, multi, cli, chk, gen>>


\* await execAsync(unzip / Expand-Archive): all of the archive lands in
\* vendor/, or the command fails and leaves any part of it.  extractToVendor
\* removes the archive file in its finally block; downloadAndExtract does
\* not.
PlExtract ==
    /\ readyFor(pl, "extract")
    /\ \E unzipped \in SUBSET pl.archive, ok \in BOOLEAN :
          LET started == logged(pl, <<Line("info", "Extracting", <<>>)>>)
          IN
          IF ok
          THEN /\ pl.zip = "complete"
               /\ unzipped = pl.archive
               /\ pl' = [Pass(started, "extract", "extracted") EXCEPT
                            !.vendor = unzipped]
          ELSE pl' = [Fail(started, "extract", Error("Command failed")) EXCEPT
                         !.vendor = unzipped,
                         !.zip = IF pl.impl = "platform" THEN "absent" ELSE @]
    /\ UNCHANGED <<calc, registry, runner, lastQueried, norm,
                   rt, multi, cli, chk, gen>>

\* generate.ts 194-202: readdir of the prefix directory, which throws when
\* the archive has no such directory, and the renames into the vendor root.
PlStrip ==
    /\ readyFor(pl, "strip")
    /\ LET step == stripPrefixStep(pl.vendor, pl.config.stripPrefix)
       IN  IF step.ok
           THEN pl' = [Pass(pl, "strip", "stripped") EXCEPT
                          !.vendor = step.vendor]
           ELSE pl' = Fail(pl, "strip", step.error)
    /\ UNCHANGED <<calc, registry, runner, lastQueried, norm,
                   rt, multi, cli, chk, gen>>

\* The chmod loop over the declared binaries: the chmod of a binary that
\* does not exist throws into an empty catch block, which writes nothing.
PlChmod ==
    /\ readyFor(pl, "chmod")
    /\ pl' = [Pass(pl, "chmod", "chmodded") EXCEPT
                 !.binaryPaths = nullishBinaries(pl.config),
                 !.modes = @ \cup chmodded(pl.vendor, nullishBinaries(pl.config),
                                           pl.platform)]
    /\ UNCHANGED <<calc, registry, runner, lastQueried, norm,
                   rt, multi, cli, chk, gen>>

\* await fs.rm(zipPath, { force: true }), then the test for declared
\* verification commands.
PlCleanup ==
    /\ readyFor(pl, "cleanup")
    /\ pl' = [logged(pl, <<Line("info", "Extracted", <<>>)>>
                          \o IF pl.config.verify # <<>>
                             THEN <<Line("info", "Verifying binaries", <<>>)>>
                             ELSE <<>>)
                 EXCEPT !.zip = "absent",
                        !.pc = pcAfterVerify(pl.config, pl.verifyRuns)]
    /\ UNCHANGED <<calc, registry, runner, lastQueried, norm,
                   rt, multi, cli, chk, gen>>

\* One round of the verification loop: the next declared command is run on
\* the binary with the executable suffix if that exists, else on the bare
\* path.  verifyBinaries throws for a binary that does not exist;
\* downloadAndExtract spawns it.
PlVerify ==
    /\ readyFor(pl, "verify")
    /\ LET cmd == pl.config.verify[Len(pl.verifyRuns) + 1]
           targetPath == accessTarget(pl.vendor, cmd.binaryPath, pl.platform)
       IN  IF targetPath \notin pl.vendor
           THEN pl' = missingBinary(pl, cmd, targetPath)
           ELSE \E ended \in {Exit(0), Exit(1), Signalled, SpawnError} :
                   LET code == closeCode(ended)
                       runs == Append(pl.verifyRuns,
                                      [cmd |-> cmd, code |-> code])
                   IN  IF ended.kind = "error"
                       THEN pl' = Crash(pl, "verify",
                                        ErrorNaming("spawn error", targetPath))
                       ELSE IF verifyPassed(code)
                       THEN pl' = [Pass(logged(pl, <<Line("info", "Verified",
                                                           cmd.binaryPath)>>),
                                        "verify",
                                        pcAfterVerify(pl.config, runs))
                                     EXCEPT !.verifyRuns = runs]
                       ELSE pl' = [Fail(pl, "verify",
                                        Error("Verification failed"))
                                     EXCEPT !.verifyRuns = runs]
    /\ UNCHANGED <<calc, registry, runner, lastQueried, norm,
                   rt, multi, cli, chk, gen>>

\* runGenerateTarget 84-85: execSync('pnpm install --force'), which throws
\* on a non-zero exit.
PlInstall ==
    /\ readyFor(pl, "install")
    /\ \E ok \in BOOLEAN :
          pl' = IF ok THEN Pass(pl, "install", "done")
                ELSE Fail(pl, "install", Error("Command failed"))
    /\ UNCHANGED <<calc, registry, runner, lastQueried, norm,
                   rt, multi, cli, chk, gen>>

NextPipeline ==
    \/ PlResolve
    \/ PlPrepare
    \/ PlDownload
    \/ PlExtract
    \/ PlStrip
    \/ PlChmod
    \/ PlCleanup
    \/ PlVerify
    \/ PlInstall

SpecPipeline == InitPipeline /\ [][NextPipeline]_vars


(***************************************************************************)
(* Claims about the acquisition pipeline.                                  *)
(***************************************************************************)
\* The acquisition has returned to its caller, with a result or an error.
Returned(p) == p.pc \in {"acquired", "done", "failed", "crashed"}

\* The acquisition has returned a result, so that the caller goes on to the
\* workspace install.
Acquired(p) == p.pc \in {"acquired", "done"} \/ p.failedAt = "install"

\* C7: when the acquisition returns, with an error of any stage or with
\* success, the temporary archive file download.zip no longer exists.
C7_ArchiveRemoved ==
    (pl.pc # "idle" /\ Returned(pl)) => pl.zip = "absent"

\* C8: an acquisition succeeds, and the workspace install follows, only if
\* every declared verification command was run, in the declared order, and
\* exited with code 0.
C8_VerifiedBeforeSuccess ==
    (pl.pc # "idle" /\ Acquired(pl)) =>
        /\ Len(pl.verifyRuns) = Len(pl.config.verify)
        /\ \A i \in DOMAIN pl.verifyRuns :
              /\ pl.verifyRuns[i].cmd = pl.config.verify[i]
              /\ pl.verifyRuns[i].code = 0

\* The Android tools were acquired by runGenerateTarget: both declared
\* commands ran and exited 0, and the workspace install has finished.
C8_Witness ==
    /\ pl.pc = "done"
    /\ pl.impl = "generate"
    /\ pl.config = AndroidConfig
    /\ Len(pl.verifyRuns) = 2
    /\ \A i \in DOMAIN pl.verifyRuns : pl.verifyRuns[i].code = 0

\* The stage of the claimed sequence a step belongs to.
ClaimStage(step) == IF step \in {"strip", "chmod"} THEN "normalize" ELSE step

StageRank(stage) ==
    CASE stage = "resolve" -> 1
      [] stage = "download" -> 2
      [] stage = "extract" -> 3
      [] stage = "normalize" -> 4
      [] stage = "verify" -> 5
      [] stage = "install" -> 6

\* C9: the stages of one target run in the order resolve, download,
\* extract, normalize, verify; a stage starts only after the stage before it
\* has completed, and no stage runs after a stage has failed.
C9_StageOrder ==
    pl.pc # "idle" =>
        LET log == pl.stages
            rank(i) == StageRank(ClaimStage(log[i].step))
        IN  \A i \in DOMAIN log :
              /\ i > 1 =>
                   /\ log[i - 1].ok
                   /\ \/ rank(i - 1) < rank(i)
                      \/ /\ rank(i - 1) = rank(i)
                         /\ ClaimStage(log[i].step) \in {"normalize", "verify"}
              /\ (rank(i) \in 2..5 /\ ~(pl.impl = "platform" /\ rank(i) = 2)) =>
                   /\ i > 1
                   /\ rank(i - 1) \in {rank(i) - 1, rank(i)}
              /\ ~log[i].ok =>
                   /\ i = Len(log)
                   /\ pl.pc \in {"failed", "crashed"}
                   /\ pl.failedAt = log[i].step

\* runGenerateTarget ran every stage for the Android tools, in order.
C9_Witness ==
    /\ pl.pc = "done"
    /\ pl.impl = "generate"
    /\ [i \in DOMAIN pl.stages |-> pl.stages[i].step] =
           <<"resolve", "download", "extract", "strip", "chmod",
             "verify", "verify", "install">>

\* C10: a download answered with a non-success status or without a body
\* fails the target: one attempt, nothing extracted, normalized or verified
\* afterwards, and an error that carries the HTTP status.
C10_DownloadRejected ==
    ( /\ pl.pc # "idle"
      /\ pl.downloads > 0
      /\ pl.response.kind = "http"
      /\ ~responseOk(pl.response) \/ ~pl.response.body )
    =>
        /\ pl.pc = "failed"
        /\ pl.failedAt = "download"
        /\ pl.downloads = 1
        /\ pl.vendor = {} /\ pl.modes = {} /\ pl.verifyRuns = <<>>
        /\ pl.stages[Len(pl.stages)].step = "download"
        /\ pl.error.hasStatus
        /\ pl.error.status = pl.response.status


\* C11: the verification commands run in their declared order and the
\* first one that does not exit with code 0 is the last one spawned: the
\* verifier fails there and then.
C11_FailFast ==
    pl.pc # "idle" =>
        \A i \in DOMAIN pl.verifyRuns :
            /\ i <= Len(pl.config.verify)
            /\ pl.verifyRuns[i].cmd = pl.config.verify[i]
            /\ pl.verifyRuns[i].code # 0 =>
                 /\ i = Len(pl.verifyRuns)
                 /\ pl.pc = "failed"
                 /\ pl.failedAt = "verify"

\* The first of the two Android commands exited non-zero: the run failed
\* with the second command never spawned.
C11_Witness ==
    /\ pl.pc = "failed"
    /\ pl.config = AndroidConfig
    /\ Len(pl.verifyRuns) = 1
    /\ pl.verifyRuns[1].code # 0
    /\ (pl.vendor \cap {<<"fastboot">>, <<"fastboot", ".exe">>}) # {}

\* The binary of the verification command the loop has reached exists
\* neither with nor without the executable suffix.
MissingVerifyBinary(p) ==
    /\ Len(p.verifyRuns) < Len(p.config.verify)
    /\ LET binaryPath == p.config.verify[Len(p.verifyRuns) + 1].binaryPath
       IN  /\ binaryPath \notin p.vendor
           /\ (binaryPath \o exeExt(p.platform)) \notin p.vendor

\* C12: a verification command whose binary exists neither with nor
\* without the executable suffix ends the verification with an error that
\* names the binary; the command is not skipped and the run does not
\* succeed.
C12_MissingBinaryFails ==
    [][(pl.pc = "verifying" /\ MissingVerifyBinary(pl) /\ pl' # pl) =>
          LET binaryPath == pl.config.verify[Len(pl.verifyRuns) + 1].binaryPath
          IN  /\ pl'.pc \in {"failed", "crashed"}
              /\ pl'.failedAt = "verify"
              /\ pl'.error.names = binaryPath
              /\ pl'.verifyRuns = pl.verifyRuns
      ]_vars

\* verifyBinaries reached `fastboot --version` with adb verified and no
\* fastboot in the vendor directory, and threw naming fastboot.
C12_Witness ==
    /\ pl.pc = "failed"
    /\ pl.impl = "platform"
    /\ pl.config = AndroidConfig
    /\ Len(pl.verifyRuns) = 1
    /\ MissingVerifyBinary(pl)
    /\ pl.error.names = <<"fastboot">>


\* The chmod loop has run.
Normalized(p) ==
    p.pc \in {"chmodded", "verifying", "acquired", "done"}
        \/ (p.pc \in {"failed", "crashed"} /\ p.failedAt \in {"verify", "install"})

\* The declared binaries that exist under neither name in the vendor
\* directory.
AbsentBinaries(p) ==
    {b \in Range(p.config.binaries) :
        b \notin p.vendor /\ (b \o exeExt(p.platform)) \notin p.vendor}

\* C13: a declared binary that the extracted archive lacks does not fail
\* the normalization: it is logged as a warning, the declared binaries that
\* exist are made executable, and the pipeline goes on to verification.
C13_AbsentBinaryWarned ==
    (pl.pc # "idle" /\ Normalized(pl)) =>
        /\ \A b \in AbsentBinaries(pl) :
              \E i \in DOMAIN pl.console :
                  pl.console[i].level = "warn" /\ pl.console[i].names = b
        /\ \A b \in Range(pl.config.binaries) \ AbsentBinaries(pl) :
              accessTarget(pl.vendor, b, pl.platform) \in pl.modes
        /\ \A i \in DOMAIN pl.stages :
              pl.stages[i].step = "chmod" => pl.stages[i].ok


(***************************************************************************)
(* SpecNormalize: the strip-prefix step of the layout normalizer applied,  *)
(* once and again, to a vendor directory as extraction may have left it.   *)
(***************************************************************************)
MaxApplications == 2

\* The files an extracted archive may hold, under the top-level directory
\* or at the root; the top-level directory holds files only.
NormFiles ==
    {<<"platform-tools", "adb">>, <<"platform-tools", "fastboot">>,
     <<"platform-tools", "NOTICE.txt">>, <<"adb">>, <<"NOTICE.txt">>,
     <<"lib", "libc++.so">>}

NormPrefixes == {<<"platform-tools">>, <<>>}

InitNormalize ==
    /\ \E vendor \in SUBSET NormFiles, stripPrefix \in NormPrefixes :
          norm = [phase |-> "extracted", stripPrefix |-> stripPrefix,
                  vendor |-> vendor, content |-> [p \in vendor |-> p],
                  applied |-> 0, error |-> NoError]
    /\ calc = CalcIdle
    /\ registry = RegistryIdle
    /\ runner = RunnerIdle
    /\ lastQueried = HistoryIdle
    /\ pl = PlIdle
    /\ rt = RtIdle
    /\ multi = MultiIdle
    /\ cli = CliIdle
    /\ chk = ChkIdle
    /\ gen = GenIdle

\* One application of generate.ts 194-202 to the vendor directory.
Normalize ==
    /\ norm.phase \in {"extracted", "normalized"}
    /\ norm.applied < MaxApplications
    /\ LET step == stripPrefixStep(norm.vendor, norm.stripPrefix)
       IN  norm' = [norm EXCEPT
                       !.phase = IF step.ok THEN "normalized" ELSE "failed",
                       !.vendor = step.vendor,
                       !.content =
                           IF step.ok /\ norm.stripPrefix # <<>>
                           THEN renamedContent(norm.vendor, @,
                                               norm.stripPrefix)
                           ELSE @,
                       !.applied = @ + 1,
                       !.error = step.error]
    /\ UNCHANGED <<calc, registry, runner, lastQueried, pl,
                   rt, multi, cli, chk, gen>>

NextNormalize == Normalize

SpecNormalize == InitNormalize /\ [][NextNormalize]_vars

\* C14: the strip-prefix step applied again to a vendor directory it has
\* normalized, with the same stripPrefix, raises no error and leaves the
\* vendor directory as it is.
C14_StripIdempotent ==
    [][(norm.phase = "normalized" /\ norm' # norm) =>
          /\ norm'.phase = "normalized"
          /\ norm'.vendor = norm.vendor
      ]_vars


\* C15: after an acquisition that succeeded, every declared binary path
\* resolves (with the executable suffix or without) to a file that exists
\* under the vendor root and has mode 755.
C15_BinariesExecutable ==
    (pl.pc # "idle" /\ Acquired(pl)) =>
        \A b \in Range(pl.config.binaries) :
            LET targetPath == accessTarget(pl.vendor, b, pl.platform)
            IN  targetPath \in pl.vendor /\ targetPath \in pl.modes


\* C16: when the configuration supplies no binaries, an absent list or an
\* empty one, the binary list is the tool name alone, in the chmod loop
\* of the pipeline and in the exports of the generated facade: the list is
\* never empty.
C16_BinariesDefaulted ==
    (pl.pc # "idle" /\ Normalized(pl)) =>
        /\ pl.binaryPaths # <<>>
        /\ getBinaries(pl.config).ok /\ getBinaries(pl.config).paths # <<>>
        /\ getBinaryInfos(pl.config).ok
        /\ getBinaryInfos(pl.config).paths # <<>>
        /\ (pl.config.declared = "absent" \/ pl.config.binaries = <<>>) =>
              /\ pl.binaryPaths = <<pl.config.toolName>>
              /\ getBinaries(pl.config).paths = <<pl.config.toolName>>
              /\ getBinaryInfos(pl.config).paths = <<pl.config.toolName>>


(***************************************************************************)
(* SpecFacade: the generated main package at run time.  Its module, when   *)
(* imported, evaluates one `createBinaryRunner(getBinaryPath(...))` per    *)
(* export; the runner's methods then start subprocesses.  "inline" is the  *)
(* facade with the runtime bundled in (cli/src/templates.ts), "runtime"    *)
(* the facade that imports createBinaryRunner with buildEnv from the       *)
(* runtime package.  The installed platform package may move or go away    *)
(* at any time.                                                            *)
(***************************************************************************)
FacadeImpls == {"inline", "runtime"}

\* process.platform and process.arch of the host.
HostPlatforms == {"linux", "darwin", "win32"}

HostArchs == {"x64", "ia32"}

\* getCurrentTarget(): `${process.platform}-${process.arch}`
getCurrentTarget(platform, arch) == <<platform, "-", arch>>

\* The static table of the generated module: the x64 target of every
\* platform, with its package name.
targetPackages ==
    [targetId \in {getCurrentTarget(p, "x64") : p \in HostPlatforms} |->
        <<"@binkit/android-platform-tools-">> \o targetId]

\* Where the platform package is installed: nowhere, or in one of two
\* node_modules directories of the workspace.
Locations == {"none", "node_modules", "packages/node_modules"}

\* An error of the facade: which of the two throws, the package it names
\* and the remediation command it gives.
FacadeError(kind, packageName, remedy) ==
    [kind |-> kind, packageName |-> packageName, remedy |-> remedy]

NoFacadeError == FacadeError("none", <<>>, <<>>)

\* The directory of the binaries inside the platform package.
binariesDir(impl) == IF impl = "inline" THEN "vendor" ELSE "bin"

\* A variant of getVendorDir that resolves the module before it looks the
\* target up.
getVendorDir_ResolveFirst(impl, targetId, location) ==
    IF targetId \notin DOMAIN targetPackages
    THEN [ok |-> FALSE, dir |-> <<>>, resolved |-> 1,
          error |-> FacadeError("unsupported target", <<>>, <<>>)]
    ELSE IF location = "none"
    THEN [ok |-> FALSE, dir |-> <<>>, resolved |-> 1,
          error |-> FacadeError("not installed", targetPackages[targetId],
                                <<"npm install">> \o targetPackages[targetId])]
    ELSE [ok |-> TRUE,
          dir |-> <<location>> \o targetPackages[targetId]
                     \o <<binariesDir(impl)>>,
          resolved |-> 1, error |-> NoFacadeError]

\* A variant of getVendorDir that falls back to the bare command, to be
\* looked up on PATH, when the package cannot be resolved.
getVendorDir_PathFallback(impl, targetId, location) ==
    IF targetId \notin DOMAIN targetPackages
    THEN [ok |-> FALSE, dir |-> <<>>, resolved |-> 0,
          error |-> FacadeError("unsupported target", <<>>, <<>>)]
    ELSE IF location = "none"
    THEN [ok |-> TRUE, dir |-> <<>>, resolved |-> 1, error |-> NoFacadeError]
    ELSE [ok |-> TRUE,
          dir |-> <<location>> \o targetPackages[targetId]
                     \o <<binariesDir(impl)>>,
          resolved |-> 1, error |-> NoFacadeError]

\* getVendorDir() (getBinDir() in the runtime facade): the table lookup, the
\* throw for a target without entry, then require.resolve of the package's
\* package.json and the throw when that fails.  `resolved` counts the
\* calls of require.resolve.
getVendorDir(impl, targetId, location) ==
    IF targetId \notin DOMAIN targetPackages
    THEN [ok |-> FALSE, dir |-> <<>>, resolved |-> 0,
          error |-> FacadeError("unsupported target", <<>>, <<>>)]
    ELSE IF location = "none"
    THEN [ok |-> FALSE, dir |-> <<>>, resolved |-> 1,
          error |-> FacadeError("not installed", targetPackages[targetId],
                                <<"npm install">> \o targetPackages[targetId])]
    ELSE [ok |-> TRUE,
          dir |-> <<location>> \o targetPackages[targetId]
                     \o <<binariesDir(impl)>>,
          resolved |-> 1, error |-> NoFacadeError]

\* getBinaryPath(binaryPath): path.join(vendorDir, binaryPath + extension)
getBinaryPath(impl, binaryPath, platform, arch, location) ==
    LET vendorDir == getVendorDir(impl, getCurrentTarget(platform, arch),
                                  location)
    IN  IF vendorDir.ok
        THEN [vendorDir EXCEPT !.dir = @ \o binaryPath \o exeExt(platform)]
        ELSE vendorDir

\* path.dirname of a path whose last segment may carry the suffix segment.
dirname(path) ==
    IF path[Len(path)] = ".exe" THEN SubSeq(path, 1, Len(path) - 2)
    ELSE SubSeq(path, 1, Len(path) - 1)

\* platform.ts getLibraryPathEnvVar()
getLibraryPathEnvVar(platform) ==
    CASE platform = "darwin" -> "DYLD_LIBRARY_PATH"
      [] platform = "win32" -> "PATH"
      [] OTHER -> "LD_LIBRARY_PATH"

\* An environment maps each variable to its value, a list of directories,
\* or to nothing.  The empty string is a set variable without entries.
EnvVars == {"PATH", "LD_LIBRARY_PATH", "DYLD_LIBRARY_PATH"}

Unset == [set |-> FALSE, entries |-> <<>>]

Value(entries) == [set |-> TRUE, entries |-> entries]

\* JavaScript truthiness of env[name]: set and not the empty string.
truthy(value) == value.set /\ value.entries # <<>>

\* `${dir}${path.delimiter}${rest}`: an empty rest leaves an empty entry
\* behind the delimiter.
prepend(dir, entries) ==
    <<dir>> \o (IF entries = <<>> THEN << <<>> >> ELSE entries)

\* { ...process.env, ...env }
spread(processEnv, env) ==
    [name \in EnvVars |-> IF env[name].set THEN env[name] ELSE processEnv[name]]


\* env?.[name] || process.env[name] || ''
existingValue(name, env, processEnv) ==
    IF truthy(env[name]) THEN env[name].entries
    ELSE IF truthy(processEnv[name]) THEN processEnv[name].entries
    ELSE <<>>

\* The runtime package's buildEnv(binaryPath, env), for the host platform.
buildEnv(binaryPath, env, processEnv, platform) ==
    LET binaryDir == dirname(binaryPath)
        libDir == dirname(binaryDir) \o <<"lib">>
        libPathEnvVar == getLibraryPathEnvVar(platform)
        withPath == [spread(processEnv, env) EXCEPT
                        !["PATH"] = Value(prepend(binaryDir,
                                        existingValue("PATH", env, processEnv)))]
        existingLibPath == existingValue(libPathEnvVar, env, processEnv)
    IN  IF libPathEnvVar = "PATH"
        THEN [withPath EXCEPT
                 !["PATH"] = Value(prepend(libDir, withPath["PATH"].entries))]
        ELSE [withPath EXCEPT
                 ![libPathEnvVar] = IF existingLibPath # <<>>
                                    THEN Value(prepend(libDir, existingLibPath))
                                    ELSE Value(<<libDir>>)]

NoEnv == [name \in EnvVars |-> Unset]

\* The options of a call: without env, or with one of a few environments.
NoOptions == [given |-> FALSE, env |-> NoEnv]

WithEnv(env) == [given |-> TRUE, env |-> env]

\* The environment the subprocess gets: the inline runner hands the
\* caller's options to child_process as they are (which inherits
\* process.env without an env option); the runtime runner builds it.
childEnv(impl, binaryPath, options, processEnv, platform) ==
    IF impl = "runtime"
    THEN buildEnv(binaryPath, options.env, processEnv, platform)
    ELSE IF options.given THEN options.env
    ELSE processEnv

\* A variant of ambientAfter in which the additions are assigned into
\* process.env itself.
ambientAfter_InPlace(impl, binaryPath, options, processEnv, platform) ==
    IF impl = "runtime"
    THEN buildEnv(binaryPath, options.env, processEnv, platform)
    ELSE processEnv

\* process.env after a call: buildEnv assigns PATH and the library variable
\* to `envVars`, an object literal of its own; the inline runner assigns
\* nothing.
ambientAfter(impl, binaryPath, options, processEnv, platform) ==
    processEnv

\* The caller's options object after a call: it is only read (opts?.env,
\* spread into new object literals).
optionsAfter(impl, options) ==
    options

ProcessEnvs ==
    {NoEnv,
     [NoEnv EXCEPT !["PATH"] = Value(<< <<"usr", "bin">> >>)],
     [name \in EnvVars |->
         IF name = "PATH" THEN Value(<< <<"usr", "bin">> >>)
         ELSE Value(<< <<"opt", "lib">> >>)]}

CallOptions ==
    {NoOptions,
     WithEnv([NoEnv EXCEPT !["PATH"] = Value(<< <<"custom", "bin">> >>)]),
     WithEnv([NoEnv EXCEPT !["LD_LIBRARY_PATH"] = Value(<< <<"custom", "lib">> >>),
                           !["DYLD_LIBRARY_PATH"] = Value(<< <<"custom", "lib">> >>)]),
     WithEnv([NoEnv EXCEPT !["PATH"] = Value(<<>>)])}

RunnerMethods == {"spawn", "spawnSync", "exec", "execSync"}

MaxCalls == 2

\* The exports of the facade generated for the Android tools.
FacadeExports == Range(getBinaries(AndroidConfig).paths)

NoCall ==
    [method |-> "none", binary |-> <<>>, path |-> <<>>,
     options |-> NoOptions, optionsAfter |-> NoOptions, env |-> NoEnv]

InitFacade ==
    /\ \E impl \in FacadeImpls, platform \in HostPlatforms, arch \in HostArchs,
          location \in Locations, processEnv \in ProcessEnvs :
          rt = [pc |-> "unloaded", impl |-> impl, platform |-> platform,
                arch |-> arch, location |-> location,
                processEnv |-> processEnv, ambientAtStart |-> processEnv,
                importedAt |-> "none",
                runners |-> [b \in FacadeExports |-> <<>>],
                resolved |-> 0, calls |-> 0, last |-> NoCall,
                error |-> NoFacadeError]
    /\ calc = CalcIdle
    /\ registry = RegistryIdle
    /\ runner = RunnerIdle
    /\ lastQueried = HistoryIdle
    /\ pl = PlIdle
    /\ norm = NormIdle
    /\ multi = MultiIdle
    /\ cli = CliIdle
    /\ chk = ChkIdle
    /\ gen = GenIdle

\* The import of the generated module: every export statement evaluates
\* createBinaryRunner(getBinaryPath(path)); the first throw fails the import.
RtImport ==
    /\ rt.pc = "unloaded"
    /\ LET bound == [b \in FacadeExports |->
                        getBinaryPath(rt.impl, b, rt.platform, rt.arch,
                                      rt.location)]
           first == CHOOSE b \in FacadeExports : TRUE
       IN  IF \A b \in FacadeExports : bound[b].ok
           THEN rt' = [rt EXCEPT
                          !.pc = "loaded",
                          !.importedAt = rt.location,
                          !.runners = [b \in FacadeExports |-> bound[b].dir],
                          !.resolved = Cardinality(FacadeExports)]
           ELSE rt' = [rt EXCEPT
                          !.pc = "failed",
                          !.importedAt = rt.location,
                          !.resolved = bound[first].resolved,
                          !.error = bound[first].error]
    /\ UNCHANGED <<calc, registry, runner, lastQueried, pl,
                   norm, multi, cli, chk, gen>>

\* One call of a runner method: the subprocess is started on the path the
\* runner was created with.
RtInvoke ==
    /\ rt.pc = "loaded"
    /\ rt.calls < MaxCalls
    /\ \E b \in FacadeExports, method \in RunnerMethods,
          options \in CallOptions :
          rt' = [rt EXCEPT
                       !.calls = @ + 1,
                       !.processEnv = ambientAfter(rt.impl, rt.runners[b],
                                                   options, rt.processEnv,
                                                   rt.platform),
                       !.last = [method |-> method, binary |-> b,
                                 path |-> rt.runners[b], options |-> options,
                                 optionsAfter |-> optionsAfter(rt.impl, options),
                                 env |-> childEnv(rt.impl, rt.runners[b],
                                                  options, rt.processEnv,
                                                  rt.platform)]]
    /\ UNCHANGED <<calc, registry, runner, lastQueried, pl,
                   norm, multi, cli, chk, gen>>

\* The installed package set changes: the platform package is installed,
\* removed, or moves to the other node_modules directory.
RtRelocate ==
    /\ \E location \in Locations \ {rt.location} :
          rt' = [rt EXCEPT !.location = location]
    /\ UNCHANGED <<calc, registry, runner, lastQueried, pl,
                   norm, multi, cli, chk, gen>>

NextFacade == RtImport \/ RtInvoke \/ RtRelocate

SpecFacade == InitFacade /\ [][NextFacade]_vars


(***************************************************************************)
(* Claims about the facade at run time.                                    *)
(***************************************************************************)
\* The host's (platform, arch) pair has an entry in the static table.
TargetMapped == getCurrentTarget(rt.platform, rt.arch) \in DOMAIN targetPackages

\* C17: on a (platform, arch) pair without an entry in the static target
\* table the facade throws its unsupported-target error with no module
\* resolution attempted and no subprocess started.
C17_UnmappedThrowsFirst ==
    (rt.pc \notin {"idle", "unloaded"} /\ ~TargetMapped) =>
        /\ rt.pc = "failed"
        /\ rt.error.kind = "unsupported target"
        /\ rt.resolved = 0
        /\ rt.calls = 0

\* The facade was imported on an ia32 host and threw.
C17_Witness ==
    /\ rt.pc = "failed"
    /\ rt.arch = "ia32"
    /\ rt.error.kind = "unsupported target"

C19_ResolvedPerCall ==
    [][(rt.pc = "loaded" /\ rt'.calls = rt.calls + 1) =>
          LET fresh == getBinaryPath(rt.impl, rt'.last.binary, rt.platform,
                                     rt.arch, rt.location)
          IN  fresh.ok /\ rt'.last.path = fresh.dir
      ]_vars

\* The value a variable has for the call: the caller's, else the inherited
\* one, else none.
ClaimExisting(name) ==
    existingValue(name, rt.last.options.env, rt.processEnv)

\* C20: the subprocess of every call gets an environment whose library
\* search variable starts with the sibling lib directory, followed by the
\* caller-supplied or inherited value if there is one, and whose PATH has
\* the binary's directory in front of the existing PATH value.
C20_EnvPrepended ==
    (rt.pc # "idle" /\ rt.calls > 0) =>
        LET binaryDir == dirname(rt.last.path)
            libDir == dirname(binaryDir) \o <<"lib">>
            libVar == getLibraryPathEnvVar(rt.platform)
            env == rt.last.env
            front == IF libVar = "PATH" THEN <<libDir, binaryDir>>
                     ELSE <<binaryDir>>
        IN  /\ env[libVar].set
            /\ env[libVar].entries # <<>>
            /\ env[libVar].entries[1] = libDir
            /\ (libVar # "PATH" /\ ClaimExisting(libVar) # <<>>) =>
                  env[libVar].entries = <<libDir>> \o ClaimExisting(libVar)
            /\ env["PATH"].set
            /\ startsWith(env["PATH"].entries, front)
            /\ ClaimExisting("PATH") # <<>> =>
                  env["PATH"].entries = front \o ClaimExisting("PATH")


\* C21: no sequence of runner calls, on whichever binaries, changes the
\* ambient process environment or the caller's env object, and the
\* environment of each call is determined by its binary path, its caller
\* env and the ambient environment as it was from the start.
C21_EnvUntouched ==
    rt.pc # "idle" =>
        /\ rt.processEnv = rt.ambientAtStart
        /\ rt.calls > 0 =>
              /\ rt.last.optionsAfter = rt.last.options
              /\ rt.last.env = childEnv(rt.impl, rt.last.path, rt.last.options,
                                        rt.ambientAtStart, rt.platform)

\* Two calls went through buildEnv with an inherited PATH, the second with
\* an env of the caller: the ambient environment is as it was.
C21_Witness ==
    /\ rt.pc = "loaded"
    /\ rt.impl = "runtime"
    /\ rt.calls = 2
    /\ rt.last.options.given
    /\ truthy(rt.ambientAtStart["PATH"])
    /\ rt.processEnv = rt.ambientAtStart
    /\ rt.last.env # rt.processEnv


\* ---------------------------------------------------------------------------
\* generateToolPackages: one invocation over all the platforms of a tool
\* ---------------------------------------------------------------------------

MultiImpls == {"generator", "part_003"}

MultiTargets == <<"darwin-arm64", "linux-x64", "win32-x64">>

\* How downloadAndExtractPlatform ends: it returns, or one of its awaited
\* steps throws.
AcquireOutcomes == {"ok", "download", "extract", "verify"}

\* What a call of downloadAndExtractPlatform leaves in <packageDir>/vendor.
vendorAfter(outcome) ==
    CASE outcome = "ok"       -> "verified"
      [] outcome = "download" -> "empty"
      [] outcome = "extract"  -> "partial"
      [] outcome = "verify"   -> "extracted"

\* The two `continue` conditions at the head of the loop body.
skipped(m, platformId) ==
    \/ m.currentPlatformOnly /\ platformId # m.currentPlatform
    \/ m.impl = "generator" /\ m.download /\ platformId \notin m.urls

\* A loop that caught the rejection and went on to the next platform.
loopContinues_AfterFailure(m) ==
    m.status # "done" /\ m.i <= Len(MultiTargets)

\* `for (const platform of config.platforms)` with every step awaited and no
\* try/catch: a rejection leaves the function, so the loop body runs only
\* while nothing has thrown.
loopContinues(m) ==
    m.status = "running" /\ m.i <= Len(MultiTargets)

InitMulti ==
    /\ calc = CalcIdle
    /\ registry = RegistryIdle
    /\ runner = RunnerIdle
    /\ lastQueried = HistoryIdle
    /\ pl = PlIdle
    /\ norm = NormIdle
    /\ rt = RtIdle
    /\ cli = CliIdle
    /\ chk = ChkIdle
    /\ gen = GenIdle
    /\ \E impl \in MultiImpls, download \in BOOLEAN,
          currentPlatformOnly \in BOOLEAN,
          currentPlatform \in Range(MultiTargets),
          urls \in SUBSET Range(MultiTargets) :
           multi = [status |-> "running", impl |-> impl,
                    download |-> download,
                    currentPlatformOnly |-> currentPlatformOnly,
                    currentPlatform |-> currentPlatform, urls |-> urls,
                    main |-> "generated", i |-> 1,
                    packages |-> [t \in Range(MultiTargets) |-> "none"],
                    vendors |-> [t \in Range(MultiTargets) |-> "none"],
                    failedAt |-> 0, error |-> "none"]

\* One loop iteration that hits a `continue`.
MultiSkip ==
    /\ loopContinues(multi)
    /\ skipped(multi, MultiTargets[multi.i])
    /\ multi' = [multi EXCEPT !.i = @ + 1]
    /\ UNCHANGED <<calc, registry, runner, lastQueried, pl, norm, rt,
                   cli, chk, gen>>

\* One loop iteration that generates the platform package and, when asked to
\* and a URL is configured, awaits downloadAndExtractPlatform.
MultiGenerate ==
    /\ loopContinues(multi)
    /\ ~skipped(multi, MultiTargets[multi.i])
    /\ LET t == MultiTargets[multi.i]
           acquires == multi.download /\ t \in multi.urls
       IN  \E outcome \in (IF acquires THEN AcquireOutcomes ELSE {"ok"}) :
               multi' = [multi EXCEPT
                   !.packages[t] = "generated",
                   !.vendors[t] =
                       IF acquires THEN vendorAfter(outcome) ELSE @,
                   !.i = @ + 1,
                   !.status = IF outcome = "ok" THEN @ ELSE "failed",
                   !.failedAt =
                       IF outcome # "ok" /\ @ = 0 THEN multi.i ELSE @,
                   !.error =
                       IF outcome # "ok" /\ @ = "none" THEN outcome ELSE @]
    /\ UNCHANGED <<calc, registry, runner, lastQueried, pl, norm, rt,
                   cli, chk, gen>>

\* The loop is over and the success line is logged.
MultiFinish ==
    /\ multi.status = "running"
    /\ multi.i > Len(MultiTargets)
    /\ multi' = [multi EXCEPT !.status = "done"]
    /\ UNCHANGED <<calc, registry, runner, lastQueried, pl, norm, rt,
                   cli, chk, gen>>

NextMulti ==
    \/ MultiSkip
    \/ MultiGenerate
    \/ MultiFinish

SpecMulti == InitMulti /\ [][NextMulti]_vars

\* Position of a platform in config.platforms.
ClaimIndexOf(t) ==
    CHOOSE k \in 1..Len(MultiTargets) : MultiTargets[k] = t

ClaimHalted ==
    multi.status = "failed" =>
        /\ multi.error # "none"
        /\ multi.failedAt \in 1..Len(MultiTargets)
        /\ \A t \in Range(MultiTargets) :
               ClaimIndexOf(t) > multi.failedAt =>
                   multi.packages[t] = "none" /\ multi.vendors[t] = "none"

ClaimEarlierUntouched ==
    multi.status # "idle" =>
        \A t \in Range(MultiTargets) :
            ClaimIndexOf(t) < multi.i =>
                /\ multi'.packages[t] = multi.packages[t]
                /\ multi'.vendors[t] = multi.vendors[t]

\* C22: when a target's download, extraction or verification fails, the
\* failure reaches the caller, no later target of the list is generated or
\* downloaded, and no step ever changes the package or the vendor directory
\* of a target the loop has already gone past.
C22_FailureHalts ==
    []ClaimHalted /\ [][ClaimEarlierUntouched]_vars

C22_Witness ==
    /\ multi.status = "failed"
    /\ multi.failedAt = 2
    /\ multi.error = "verify"
    /\ multi.vendors[MultiTargets[1]] = "verified"
    /\ multi.packages[MultiTargets[3]] = "none"


\* ---------------------------------------------------------------------------
\* The command line: `binkit main|target <tool-name> <upstream-version>`
\* ---------------------------------------------------------------------------

\* "cli": main of cli.ts with getPredefinedConfig, npm.ts and generateMain /
\* generateTarget.  "commands": runGenerateMain / runGenerateTarget of
\* commands/generate.ts with resolveToolConfig, as functions that resolve or
\* reject.
CliImpls == {"cli", "commands"}

CliCommands == {"main", "target"}

FfmpegVersion == <<"8", ".", "0", ".", "0">>

\* The registry entries: declared upstream versions and targets.
CliEntries ==
    [tool \in {"android-platform-tools", "ffmpeg"} |->
        IF tool = "ffmpeg"
        THEN [versions |-> {FfmpegVersion},
              targets |-> {"win32-x64", "darwin-x64"}]
        ELSE [versions |-> ToolVersions,
              targets |-> {"darwin-x64", "darwin-arm64", "linux-x64",
                           "win32-x64"}]]

CliNames == DOMAIN CliEntries \cup {"ffmpg"}

CliVersions == ToolVersions \cup {FfmpegVersion}

CliHosts == {"linux-x64", "win32-x64"}

\* What the registry holds when the command runs.
CliPublished == {{}, {Join3(<<"0">>, <<"3", "5">>, <<"0">>)}}

CliResponses == {Http(200), Http(404), Http(500), NetErr}

\* How downloadAndExtractTarget / downloadAndExtract ends.
CliAcquireOutcomes == {"ok", "download", "extract", "normalize", "verify"}

CliStages ==
    {"lookup", "resolution", "generate", "download", "extraction",
     "normalization", "verification", "install"}

NoExit == -1

\* A lookup that lets an undeclared upstream version through to the query.
lookup_VersionLate(name, upstreamVersion) ==
    IF name \notin DOMAIN CliEntries THEN "Unknown tool" ELSE "none"

\* entries[name], then entry.versions.includes(upstreamVersion): the first
\* statements of main / getPredefinedConfig and of resolveToolConfig.
lookup(name, upstreamVersion) ==
    IF name \notin DOMAIN CliEntries THEN "Unknown tool"
    ELSE IF upstreamVersion \notin CliEntries[name].versions
    THEN "Unknown version"
    ELSE "none"

\* The version query of each implementation.
cliResolve(impl, upstreamVersion, response, versions) ==
    IF impl = "cli"
    THEN getPackageVersion(upstreamVersion, response, versions)
    ELSE generateCalculatePackageVersion(upstreamVersion, response, versions)

\* The run ends with an error: process.exit(1) after console.error in main,
\* or a rejection, which main().catch turns into process.exit(1).
cliFail(c, stage, error) ==
    [c EXCEPT !.pc = "done", !.stages[stage] = "failed", !.error = error,
              !.result = "rejected",
              !.exitCode = IF c.impl = "cli" THEN 1 ELSE NoExit]

\* The run comes to its end: main resolves and node exits with code 0.
cliReturn(c) ==
    [c EXCEPT !.pc = "done", !.result = "resolved",
              !.exitCode = IF c.impl = "cli" THEN 0 ELSE NoExit]

\* Stage marks left by an acquisition that ended with `outcome`.
acquireStages(stages, outcome) ==
    [s \in CliStages |->
        CASE s = "download" ->
                 IF outcome = "download" THEN "failed" ELSE "ok"
          [] s = "extraction" ->
                 IF outcome = "download" THEN "none"
                 ELSE IF outcome = "extract" THEN "failed" ELSE "ok"
          [] s = "normalization" ->
                 IF outcome \in {"download", "extract"} THEN "none"
                 ELSE IF outcome = "normalize" THEN "failed" ELSE "ok"
          [] s = "verification" ->
                 IF outcome = "ok" THEN "ok"
                 ELSE IF outcome = "verify" THEN "failed" ELSE "none"
          [] OTHER -> stages[s]]

InitCli ==
    /\ calc = CalcIdle
    /\ registry = RegistryIdle
    /\ runner = RunnerIdle
    /\ lastQueried = HistoryIdle
    /\ pl = PlIdle
    /\ norm = NormIdle
    /\ rt = RtIdle
    /\ multi = MultiIdle
    /\ chk = ChkIdle
    /\ gen = GenIdle
    /\ \E impl \in CliImpls, command \in CliCommands, name \in CliNames,
          upstreamVersion \in CliVersions, host \in CliHosts,
          versions \in CliPublished :
           cli = [pc |-> "lookup", impl |-> impl, command |-> command,
                  name |-> name, upstreamVersion |-> upstreamVersion,
                  host |-> host, versions |-> versions,
                  packageVersion |-> NoText,
                  stages |-> [s \in CliStages |-> "none"],
                  requests |-> {}, fs |-> {}, error |-> "none",
                  result |-> "pending", exitCode |-> NoExit]

\* The tool and the upstream version are looked up in the registry entries.
CliLookup ==
    /\ cli.pc = "lookup"
    /\ LET e == lookup(cli.name, cli.upstreamVersion)
       IN  cli' = IF e = "none"
                  THEN [cli EXCEPT !.pc = "resolve", !.stages["lookup"] = "ok"]
                  ELSE cliFail(cli, "lookup", e)
    /\ UNCHANGED <<calc, registry, runner, lastQueried, pl, norm, rt,
                   multi, chk, gen>>

\* The package version is resolved against the npm registry.
CliResolve ==
    /\ cli.pc = "resolve"
    /\ \E response \in CliResponses :
           LET r == cliResolve(cli.impl, cli.upstreamVersion, response,
                               cli.versions)
               asked == [cli EXCEPT !.requests = @ \cup {"registry"}]
           IN  cli' = IF r.ok
                      THEN [asked EXCEPT
                               !.pc = "generate",
                               !.packageVersion = r.packageVersion,
                               !.stages["resolution"] =
                                   IF response.kind = "http"
                                      /\ ~responseOk(response)
                                      /\ response.status # 404
                                   THEN "failed" ELSE "ok"]
                      ELSE cliFail(asked, "resolution", r.error)
    /\ UNCHANGED <<calc, registry, runner, lastQueried, pl, norm, rt,
                   multi, chk, gen>>

\* generateMain, or the head of generateTarget up to the generated target
\* package.
CliGenerate ==
    /\ cli.pc = "generate"
    /\ cli' =
           IF cli.command = "main"
           THEN cliReturn([cli EXCEPT
                    !.fs = @ \cup {<<"rm", cli.name>>, <<"mkdir", cli.name>>},
                    !.stages["generate"] = "ok"])
           ELSE IF cli.host \notin CliEntries[cli.name].targets
           THEN cliReturn([cli EXCEPT !.stages["generate"] = "skipped"])
           ELSE [cli EXCEPT
                    !.pc = "acquire",
                    !.fs = @ \cup {<<"rm", cli.name>>, <<"mkdir", cli.name>>,
                                   <<"rm", cli.host>>, <<"mkdir", cli.host>>},
                    !.stages["generate"] = "ok"]
    /\ UNCHANGED <<calc, registry, runner, lastQueried, pl, norm, rt,
                   multi, chk, gen>>

\* Download, extraction, normalization and verification of the host target.
CliAcquire ==
    /\ cli.pc = "acquire"
    /\ \E outcome \in CliAcquireOutcomes :
           LET marked == [cli EXCEPT
                             !.requests = @ \cup {"download"},
                             !.stages = acquireStages(@, outcome)]
           IN  cli' = IF outcome = "ok"
                      THEN [marked EXCEPT !.pc = "install"]
                      ELSE [marked EXCEPT
                               !.pc = "done", !.error = outcome,
                               !.result = "rejected",
                               !.exitCode =
                                   IF cli.impl = "cli" THEN 1 ELSE NoExit]
    /\ UNCHANGED <<calc, registry, runner, lastQueried, pl, norm, rt,
                   multi, chk, gen>>

\* execSync('pnpm install --force'), which throws on a non-zero status.
CliInstall ==
    /\ cli.pc = "install"
    /\ \E installed \in BOOLEAN :
           cli' = IF installed
                  THEN cliReturn([cli EXCEPT !.stages["install"] = "ok"])
                  ELSE cliFail(cli, "install", "pnpm install")
    /\ UNCHANGED <<calc, registry, runner, lastQueried, pl, norm, rt,
                   multi, chk, gen>>

NextCli ==
    \/ CliLookup
    \/ CliResolve
    \/ CliGenerate
    \/ CliAcquire
    \/ CliInstall

SpecCli == InitCli /\ [][NextCli]_vars

\* The stages the command given has to go through.
ClaimStagesOf(command) ==
    IF command = "main" THEN {"lookup", "resolution", "generate"}
    ELSE CliStages

\* C23: the command exits with code 0 only when every stage of its pipeline
\* succeeded, and with a non-zero code when any stage failed.
C23_ExitCodeFaithful ==
    cli.pc = "done" /\ cli.impl = "cli" =>
        /\ cli.exitCode = 0 =>
               \A s \in ClaimStagesOf(cli.command) : cli.stages[s] = "ok"
        /\ (\E s \in CliStages : cli.stages[s] = "failed") =>
               cli.exitCode \notin {0, NoExit}


ClaimUnknownRequest ==
    \/ cli.name \notin DOMAIN CliEntries
    \/ cli.upstreamVersion \notin CliEntries[cli.name].versions

\* C30: a request for a tool that is not in the registry, or for an upstream
\* version the tool does not declare, ends with an error, and at no point of
\* it is a network request issued or a package directory created or removed.
C30_RejectedEarly ==
    cli.pc # "idle" /\ ClaimUnknownRequest =>
        /\ cli.requests = {}
        /\ cli.fs = {}
        /\ cli.pc \in {"lookup", "done"}
        /\ cli.pc = "done" =>
               /\ cli.result = "rejected"
               /\ cli.error \in {"Unknown tool", "Unknown version"}
               /\ cli.impl = "cli" => cli.exitCode = 1

C30_Witness ==
    /\ cli.pc = "done"
    /\ cli.name \in DOMAIN CliEntries
    /\ cli.upstreamVersion \notin CliEntries[cli.name].versions
    /\ cli.error = "Unknown version"
    /\ cli.requests = {}


\* ---------------------------------------------------------------------------
\* The check command: which declared upstream versions are not published yet
\* ---------------------------------------------------------------------------

\* "npm": getUnpublishedVersions of npm.ts.  "runCheck": part_005 with its
\* inline fetchNpmMetadata.
CheckImpls == {"npm", "runCheck"}

\* Object.entries(entries), in insertion order.
CheckTools == <<"android-platform-tools", "ffmpeg">>

Absent == <<>>

\* One value of the registry document's `versions` map.
Meta(version, upstreamVersion) ==
    [version |-> version, upstreamVersion |-> upstreamVersion]

\* The metadata a tool's main package may hold: releases carrying their
\* upstream version and one published without the field.
MetaUniverse(tool) ==
    IF tool = "ffmpeg"
    THEN {Meta(Join3(<<"0">>, <<"8">>, <<"0">>), FfmpegVersion),
          Meta(Join3(<<"0">>, <<"8">>, <<"1">>), Absent)}
    ELSE {Meta(Join3(<<"0">>, <<"3", "5">>, <<"0">>),
               <<"3", "5", ".", "0", ".", "2">>),
          Meta(Join3(<<"0">>, <<"3", "5">>, <<"1">>),
               <<"3", "5", ".", "1", ".", "0">>),
          Meta(Join3(<<"0">>, <<"3", "5">>, <<"2">>), Absent)}

\* What the registry may answer for a package holding `metadata`.
CheckResponses(metadata) ==
    {IF metadata = {} THEN Http(404) ELSE Http(200), Http(500), NetErr}

\* fetchPublishedMetadata / fetchNpmMetadata: the `versions` map, {} for a
\* 404 and for a TypeError of fetch, or the error thrown.
fetchPublishedMetadata(response, metadata) ==
    IF response.kind = "neterr" THEN [ok |-> TRUE, metadata |-> {}]
    ELSE IF response.status = 404 THEN [ok |-> TRUE, metadata |-> {}]
    ELSE IF ~responseOk(response) THEN [ok |-> FALSE, metadata |-> {}]
    ELSE [ok |-> TRUE, metadata |-> metadata]

\* A comparison against the package version of each entry instead of its
\* upstreamVersion field.
isVersionPublished_ByPackageVersion(upstreamVersion, publishedMetadata) ==
    \E meta \in publishedMetadata : meta.version = upstreamVersion

\* Object.values(publishedMetadata).some(meta => meta.upstreamVersion ===
\* upstreamVersion)
isVersionPublished(upstreamVersion, publishedMetadata) ==
    \E meta \in publishedMetadata : meta.upstreamVersion = upstreamVersion

Pair(tool, upstreamVersion) ==
    [tool |-> tool, upstreamVersion |-> upstreamVersion]

InitCheck ==
    /\ calc = CalcIdle
    /\ registry = RegistryIdle
    /\ runner = RunnerIdle
    /\ lastQueried = HistoryIdle
    /\ pl = PlIdle
    /\ norm = NormIdle
    /\ rt = RtIdle
    /\ multi = MultiIdle
    /\ cli = CliIdle
    /\ gen = GenIdle
    /\ \E impl \in CheckImpls,
          android \in SUBSET MetaUniverse("android-platform-tools"),
          ffmpeg \in SUBSET MetaUniverse("ffmpeg") :
           chk = [pc |-> "running", impl |-> impl,
                  held |-> [tool \in Range(CheckTools) |->
                               IF tool = "ffmpeg" THEN ffmpeg ELSE android],
                  i |-> 1,
                  answers |-> [tool \in Range(CheckTools) |-> "none"],
                  unpublished |-> {}, returned |-> {}, error |-> "none"]

\* One iteration of the loop over the entries: the query of the tool's main
\* package and the filter over its declared versions.
CheckTool ==
    /\ chk.pc = "running"
    /\ chk.i <= Len(CheckTools)
    /\ LET tool == CheckTools[chk.i]
       IN  \E response \in CheckResponses(chk.held[tool]) :
               LET fetched == fetchPublishedMetadata(response, chk.held[tool])
                   asked == [chk EXCEPT !.answers[tool] = response.kind]
               IN  chk' =
                       IF fetched.ok
                       THEN [asked EXCEPT
                                !.i = @ + 1,
                                !.unpublished = @ \cup
                                    {Pair(tool, v) : v \in
                                        {u \in CliEntries[tool].versions :
                                            ~isVersionPublished(
                                                 u, fetched.metadata)}}]
                       ELSE [asked EXCEPT
                                !.pc = "failed",
                                !.error = "Failed to fetch npm info"]
    /\ UNCHANGED <<calc, registry, runner, lastQueried, pl, norm, rt,
                   multi, cli, gen>>

\* The loop is over: the pairs are returned and printed.
CheckReturn ==
    /\ chk.pc = "running"
    /\ chk.i > Len(CheckTools)
    /\ chk' = [chk EXCEPT !.pc = "done", !.returned = chk.unpublished]
    /\ UNCHANGED <<calc, registry, runner, lastQueried, pl, norm, rt,
                   multi, cli, gen>>

NextCheck ==
    \/ CheckTool
    \/ CheckReturn

SpecCheck == InitCheck /\ [][NextCheck]_vars

\* All (tool, upstream version) pairs the registry entries declare.
ClaimDeclaredPairs ==
    {p \in [tool : Range(CheckTools), upstreamVersion : CliVersions] :
        p.upstreamVersion \in CliEntries[p.tool].versions}

\* No published version of the tool's main package carries the upstream
\* version.
ClaimNotCarried(p) ==
    \A meta \in chk.held[p.tool] : meta.upstreamVersion # p.upstreamVersion

\* C24: the check returns exactly the declared (tool, upstream version) pairs
\* that no published version of the tool's main package carries in its
\* upstreamVersion field.
C24_ExactlyUnpublished ==
    chk.pc = "done" =>
        chk.returned = {p \in ClaimDeclaredPairs : ClaimNotCarried(p)}

\* C24, amended: when the check returns, it returns exactly the declared
\* pairs that no published version carries or whose tool's registry query got
\* no answer (a connectivity failure counts as nothing published).
C24_ExactUnlessUnreachable ==
    chk.pc = "done" =>
        chk.returned =
            {p \in ClaimDeclaredPairs :
                ClaimNotCarried(p) \/ chk.answers[p.tool] = "neterr"}

C24_Witness ==
    /\ chk.pc = "done"
    /\ \A tool \in Range(CheckTools) : chk.answers[tool] = "http"
    /\ \E p \in ClaimDeclaredPairs : p \in chk.returned
    /\ \E p \in ClaimDeclaredPairs : p \notin chk.returned
    /\ \E meta \in chk.held["android-platform-tools"] :
           meta.upstreamVersion = Absent


\* The prefix directory exists in the vendor directory.
ClaimPrefixDir(n) ==
    n.stripPrefix # <<>> /\ \E p \in n.vendor : startsWith(p, n.stripPrefix)

\* C25: with a stripPrefix configured and its directory present after the
\* extraction, the strip step succeeds, every entry of vendor/<prefix>/ is
\* afterwards under vendor/ with the same name, vendor/<prefix> is gone, and
\* the entries that were directly under vendor/ are there unchanged.
C25_StripMoves ==
    [][(norm.phase = "extracted" /\ ClaimPrefixDir(norm) /\ norm' # norm) =>
          /\ norm'.phase = "normalized"
          /\ \A p \in norm.vendor :
                 IF startsWith(p, norm.stripPrefix)
                 THEN LET q == slice(p, Len(norm.stripPrefix))
                      IN  q \in norm'.vendor /\ norm'.content[q] = norm.content[p]
                 ELSE p \in norm'.vendor /\ norm'.content[p] = norm.content[p]
          /\ \A q \in norm'.vendor : ~startsWith(q, norm.stripPrefix)
      ]_vars


\* ---------------------------------------------------------------------------
\* One tool's generated packages: the names they carry and the files the
\* publish-time and the run-time side address in the vendor directory
\* ---------------------------------------------------------------------------

\* "templates": cli/src/templates.ts over the ToolConfig of config.ts.
\* "part_006": the templates over the registry entry itself.
LayoutImpls == {"templates", "part_006"}

SCOPE == "@binkit"

Target(platform, arch) == [platform |-> platform, arch |-> arch]

\* entry.targets of the two registry entries.
LayoutTargets(name) ==
    IF name = "ffmpeg"
    THEN <<Target("win32", "x64"), Target("darwin", "x64")>>
    ELSE <<Target("darwin", "x64"), Target("darwin", "arm64"),
           Target("linux", "x64"), Target("win32", "x64")>>

\* entry.getConfig(ctx).binaries: the paths declared for a target, relative
\* to the vendor directory.
declaredBinaries(name, platform) ==
    IF name = "ffmpeg"
    THEN IF platform = "win32"
         THEN << <<"bin", "ffmpeg", ".exe">>, <<"bin", "ffprobe", ".exe">> >>
         ELSE << <<"ffmpeg">> >>
    ELSE << <<"adb">>, <<"fastboot">> >>

\* registry types.ts getTargetId(target)
getTargetId(t) == <<t.platform, "-", t.arch>>

\* config.ts createToolConfig: the npmPackageName of a target
npmPackageName(name, t) == <<SCOPE, "/", name, "-">> \o getTargetId(t)

\* The key of a target in the main package's optionalDependencies.
optionalDependencyName(impl, name, t) ==
    IF impl = "templates" THEN npmPackageName(name, t)
    ELSE <<SCOPE, "/", name, "-", t.platform, "-", t.arch>>

\* One line of the facade's static targetPackages table.
targetPackageEntry(impl, name, t) ==
    IF impl = "templates"
    THEN [key |-> getTargetId(t), value |-> npmPackageName(name, t)]
    ELSE [key |-> <<t.platform, "-", t.arch>>,
          value |-> <<SCOPE, "/", name, "-", t.platform, "-", t.arch>>]

\* A target package named without the scope.
targetPackageJsonName_Unscoped(impl, name, t) ==
    <<name, "-", t.platform, "-", t.arch>>

\* The name field of generateTargetPackageJson(config, target).
targetPackageJsonName(impl, name, t) ==
    IF impl = "templates" THEN npmPackageName(name, t)
    ELSE <<SCOPE, "/", name, "-", t.platform, "-", t.arch>>

\* The facade's getBinaryPath(binaryPath), relative to the vendor directory:
\* binaryPath + extension.
facadeFile(binaryPath, platform) ==
    binaryPath \o exeExt(platform)

\* What the vendor directory may hold after extraction and strip: each
\* declared binary under its declared path, under that path with the
\* platform's suffix, under both or not at all.
LayoutVendors(binaries, platform) ==
    SUBSET UNION {{b, b \o exeExt(platform)} : b \in Range(binaries)}

InitLayout ==
    /\ calc = CalcIdle
    /\ registry = RegistryIdle
    /\ runner = RunnerIdle
    /\ lastQueried = HistoryIdle
    /\ pl = PlIdle
    /\ norm = NormIdle
    /\ rt = RtIdle
    /\ multi = MultiIdle
    /\ cli = CliIdle
    /\ chk = ChkIdle
    /\ \E impl \in LayoutImpls, name \in DOMAIN CliEntries :
          \E host \in DOMAIN LayoutTargets(name) :
              gen = [phase |-> "configured", impl |-> impl, name |-> name,
                     targets |-> LayoutTargets(name), host |-> host,
                     mainDone |-> FALSE, optionalDependencies |-> {},
                     table |-> {}, exports |-> <<>>,
                     targetJson |->
                         [i \in DOMAIN LayoutTargets(name) |-> NoText],
                     acquired |-> FALSE, vendor |-> {}, executable |-> {},
                     ran |-> FALSE, facade |-> <<>>]


\* generateMainPackageJson and generateMainIndexJs: the optional
\* dependencies, the static table, and the runners exported for the binaries
\* of the first target's configuration.
GenMain ==
    /\ gen.phase = "configured"
    /\ ~gen.mainDone
    /\ gen' = [gen EXCEPT
           !.mainDone = TRUE,
           !.optionalDependencies =
               {optionalDependencyName(gen.impl, gen.name, gen.targets[i]) :
                   i \in DOMAIN gen.targets},
           !.table =
               {targetPackageEntry(gen.impl, gen.name, gen.targets[i]) :
                   i \in DOMAIN gen.targets},
           !.exports = declaredBinaries(gen.name, gen.targets[1].platform)]
    /\ UNCHANGED <<calc, registry, runner, lastQueried, pl, norm, rt,
                   multi, cli, chk>>

\* generateTargetPackageJson for one target.
GenTarget ==
    /\ gen.phase = "configured"
    /\ \E i \in DOMAIN gen.targets :
           /\ gen.targetJson[i] = NoText
           /\ gen' = [gen EXCEPT
                  !.targetJson[i] =
                      targetPackageJsonName(gen.impl, gen.name,
                                            gen.targets[i])]
    /\ UNCHANGED <<calc, registry, runner, lastQueried, pl, norm, rt,
                   multi, cli, chk>>

\* The acquisition on the host target: the chmod loop over the binaries the
\* entry declares for it.
GenAcquire ==
    /\ gen.phase = "configured"
    /\ gen.targetJson[gen.host] # NoText
    /\ ~gen.acquired
    /\ LET platform == gen.targets[gen.host].platform
           binaries == declaredBinaries(gen.name, platform)
       IN  \E vendor \in LayoutVendors(binaries, platform) :
               gen' = [gen EXCEPT
                          !.acquired = TRUE,
                          !.vendor = vendor,
                          !.executable = chmodded(vendor, binaries, platform)]
    /\ UNCHANGED <<calc, registry, runner, lastQueried, pl, norm, rt,
                   multi, cli, chk>>

\* The facade is imported on the host target: getBinaryPath for each runner
\* it exports.
GenRun ==
    /\ gen.phase = "configured"
    /\ gen.mainDone
    /\ gen.acquired
    /\ ~gen.ran
    /\ gen' = [gen EXCEPT
           !.ran = TRUE,
           !.facade =
               [b \in Range(gen.exports) |->
                   facadeFile(b, gen.targets[gen.host].platform)]]
    /\ UNCHANGED <<calc, registry, runner, lastQueried, pl, norm, rt,
                   multi, cli, chk>>

NextLayout ==
    \/ GenMain
    \/ GenTarget
    \/ GenAcquire
    \/ GenRun

SpecLayout == InitLayout /\ [][NextLayout]_vars

\* C26: every binary path declared for the host target whose file the
\* acquisition made executable is a path the facade computes at run time, and
\* the facade's path is that same file.
C26_SameFile ==
    (gen.phase # "idle" /\ gen.ran) =>
        LET platform == gen.targets[gen.host].platform
        IN  \A b \in Range(declaredBinaries(gen.name, platform)) :
                accessTarget(gen.vendor, b, platform) \in gen.executable =>
                    /\ b \in DOMAIN gen.facade
                    /\ gen.facade[b] = accessTarget(gen.vendor, b, platform)

\* C29: for every declared target the facade's table has under the key
\* <platform>-<arch> the package name that the main package lists among its
\* optional dependencies and that the target's package.json carries as its
\* name, @binkit/<tool>-<platform>-<arch>; the table has one key per target.
C29_NamesCoincide ==
    (gen.phase # "idle" /\ gen.mainDone) =>
        /\ Cardinality({e.key : e \in gen.table}) = Len(gen.targets)
        /\ \A i \in DOMAIN gen.targets :
               LET t == gen.targets[i]
                   expected ==
                       <<"@binkit", "/", gen.name, "-", t.platform, "-", t.arch>>
               IN  /\ {e.value : e \in {x \in gen.table :
                           x.key = <<t.platform, "-", t.arch>>}} = {expected}
                   /\ expected \in gen.optionalDependencies
                   /\ gen.targetJson[i] # NoText =>
                          gen.targetJson[i] = expected

C29_Witness ==
    /\ gen.mainDone
    /\ \A i \in DOMAIN gen.targets : gen.targetJson[i] # NoText
    /\ Len(gen.targets) = 4
    /\ gen.impl = "part_006"


\* ---------------------------------------------------------------------------
\* One release: the publish-main job and the publish-targets jobs of the CI
\* workflow, each running the command for the same tool and upstream version
\* ---------------------------------------------------------------------------

\* The job that runs `binkit main` and two of the matrix jobs that run
\* `binkit target`.
ReleaseJobs == {"main", "linux-x64", "win32-x64"}

\* What the tool's main package holds on the registry when the release
\* starts.
ReleasePublished == {{}, {Join3(<<"0">>, <<"3", "5">>, <<"0">>)}}

JobStart(upstreamVersion) ==
    [pc |-> "idle", upstreamVersion |-> upstreamVersion, response |-> NetErr,
     packageVersion |-> NoText, version |-> NoText, pinned |-> NoText]

InitRelease ==
    /\ \E published \in ReleasePublished : registry = published
    /\ \E u \in ToolVersions : runner = [j \in ReleaseJobs |-> JobStart(u)]
    /\ lastQueried = HistoryIdle
    /\ calc = CalcIdle
    /\ pl = PlIdle
    /\ norm = NormIdle
    /\ rt = RtIdle
    /\ multi = MultiIdle
    /\ cli = CliIdle
    /\ chk = ChkIdle
    /\ gen = GenIdle

\* resolveToolConfig in a job: the query of the main package @binkit/<name>
\* and the version computed from the answer.
ReleaseResolve(j) ==
    /\ runner[j].pc = "idle"
    /\ \E response \in Responses(registry) :
           LET outcome == generateCalculatePackageVersion(
                              runner[j].upstreamVersion, response, registry)
           IN  runner' = [runner EXCEPT
                   ![j].pc = "resolved",
                   ![j].response = response,
                   ![j].packageVersion = outcome.packageVersion]
    /\ UNCHANGED <<registry, lastQueried, calc, pl, norm, rt,
                   multi, cli, chk, gen>>

\* The package of the job is generated with config.packageVersion: the main
\* package.json with every optional dependency pinned to it, or the target
\* package.json.
ReleaseGenerate(j) ==
    /\ runner[j].pc = "resolved"
    /\ runner' = [runner EXCEPT
           ![j].pc = "generated",
           ![j].version = runner[j].packageVersion,
           ![j].pinned = IF j = "main" THEN runner[j].packageVersion
                         ELSE NoText]
    /\ UNCHANGED <<registry, lastQueried, calc, pl, norm, rt,
                   multi, cli, chk, gen>>

\* `npm publish` of the job's package; the main package is the one every
\* job's resolution queries.
ReleasePublish(j) ==
    /\ runner[j].pc = "generated"
    /\ IF j = "main"
       THEN IF runner[j].version \in registry
            THEN /\ runner' = [runner EXCEPT ![j].pc = "rejected"]
                 /\ UNCHANGED registry
            ELSE /\ registry' = registry \cup {runner[j].version}
                 /\ runner' = [runner EXCEPT ![j].pc = "published"]
       ELSE /\ runner' = [runner EXCEPT ![j].pc = "published"]
            /\ UNCHANGED registry
    /\ UNCHANGED <<lastQueried, calc, pl, norm, rt, multi, cli, chk, gen>>

NextRelease ==
    \/ \E j \in ReleaseJobs : ReleaseResolve(j)
    \/ \E j \in ReleaseJobs : ReleaseGenerate(j)
    \/ \E j \in ReleaseJobs : ReleasePublish(j)

SpecRelease == InitRelease /\ [][NextRelease]_vars

\* C27: the version the main package pins for its optional dependencies is
\* the version every target package of the release is generated with.
C27_ReleaseAgrees ==
    \A j \in DOMAIN runner :
        (j \in ReleaseJobs \ {"main"}
           /\ runner["main"].pinned # NoText
           /\ runner[j].version # NoText) =>
            runner[j].version = runner["main"].pinned


\* What the resolver the runner did not use gives for the runner's inputs.
ClaimOtherResolver(r) ==
    IF runner[r].impl = "npm"
    THEN generateCalculatePackageVersion(runner[r].upstreamVersion,
                                         runner[r].response, runner[r].seen)
    ELSE getPackageVersion(runner[r].upstreamVersion, runner[r].response,
                           runner[r].seen)

\* C28: for the upstream version, the registry contents and the response of
\* every resolution, getPackageVersion of npm.ts and calculatePackageVersion
\* of generate.ts end alike: both with the same version, or both with an
\* error.
C28_ResolversEquivalent ==
    \A r \in Runners :
        runner[r].pc # "idle" =>
            /\ HasResolved(r) <=> ClaimOtherResolver(r).ok
            /\ HasResolved(r) =>
                   ClaimOtherResolver(r).packageVersion =
                       runner[r].packageVersion

=============================================================================
